---- MODULE Spec2Model ----
(***************************************************************************)
(* Hybrid retrieval engine of the askbob-ai plugin.                        *)
(*                                                                         *)
(*   Spec       VectorSearch.search (backend/app/core/vector_search.py):   *)
(*              one search call at a time on one VectorSearch instance,    *)
(*              one action per await point of the coroutine.               *)
(*   SpecChunk  chunk_page (scraper/processing/chunker.py): the page is    *)
(*              drawn from a bounded set, one action per loop iteration.   *)
(*   SpecModes  detect_game_modes (chunker.py) applied to a title and a    *)
(*              text drawn from bounded sets.                              *)
(*   SpecIngest process_page (scraper/run_scraper.py) over the tables of   *)
(*              WikiDatabase (scraper/processing/db.py), for one page.     *)
(*   SpecConc   two callers of VectorSearch.search on one instance,        *)
(*              interleaved at their await points.                         *)
(*   SpecEmbed  EmbeddingClient.embed_texts (scraper/processing/           *)
(*              embedder.py) and the upsert of what it returns.            *)
(*   SpecRate   RateLimitMiddleware.dispatch (backend/app/middleware/      *)
(*              rate_limit.py), one action per request.                    *)
(*                                                                         *)
(* Text is modelled by TLA+ strings (Len, \o and SubSeq work on them), so  *)
(* substring tests and lower-casing are computed, not assumed.             *)
(* Similarities are integers in hundredths: 100 stands for 1.0.            *)
(***************************************************************************)
EXTENDS Integers, Sequences, FiniteSets, TLC

VARIABLES
    \* ---- VectorSearch instance and the search call in progress ----
    pc,              \* position of the search coroutine
    query,           \* argument query
    top_k,           \* argument top_k
    page_type,       \* argument page_type (NULL = None)
    game_mode,       \* argument game_mode (NULL = None)
    embedding,       \* local: the query vector returned by embed_query
    vector_rows,     \* local: Pass 1 rows
    title_rows,      \* local: Pass 2 rows
    matched_titles,  \* local: set of lowercased titles of title_rows
    shadowed,        \* local: set of shadowed lowercased titles
    seen_ids,        \* local: insertion-ordered dict chunk_id -> SearchResult
    interim,         \* local: seen_ids sorted after Pass 1 + Pass 2
    referenced,      \* local: titles returned by _find_references
    ref_i,           \* local: index of the for loop over referenced
    title_index,     \* self._title_index
    result,          \* value returned by the call
    outcome,         \* "none" | "returned" | "raised": how the call ended
    failed,          \* which awaited call raised in this search, or "none"
    store_log,       \* the store queries issued by this search call, in order
    wiki_pages,      \* the store's wiki_pages table: the pages ingested so far
    \* ---- chunk_page ----
    cpc,             \* position inside chunk_page
    title,           \* argument title
    content,         \* argument content: the page as a sequence of lines
    sections,        \* local: result of _split_into_sections
    sec_i,           \* local: index of the for loop over sections
    buffer_header,   \* local
    buffer_content,  \* local: sequence of lines
    chunks,          \* local: list of WikiChunk
    \* ---- detect_game_modes ----
    dgm_pc,          \* "off" | "call" | "done"
    dgm_text,        \* argument text
    dgm_title,       \* argument title
    game_modes,      \* the returned list of modes
    \* ---- process_page and the tables it writes (one wiki page) ----
    ipc,             \* position inside process_page
    wiki_content,    \* the content the wiki serves for the page
    embed_client,    \* argument embed_client: TRUE when one is given
    page,            \* local: content returned by get_page_content (0 = none)
    page_chunks,     \* local chunks: the list returned by chunk_page
    chunked,         \* chunk_page has returned in this call
    chunk_ids,       \* local: ids returned by upsert_chunks
    status,          \* first component of the returned pair
    runs,            \* calls of process_page so far
    content_hash,    \* wiki_pages.content_hash of the page (0 = no row)
    db_chunks,       \* rows of wiki_chunks
    db_embeddings,   \* chunk_id of the rows of wiki_embeddings
    next_id,         \* the serial behind wiki_chunks.id
    old_searchable,  \* the page's searchable chunks when the call began
    \* ---- search calls running concurrently on one VectorSearch instance ----
    calls,           \* per caller: position and locals of its search coroutine
    store_tie,       \* the order in which the store returns rows with equal keys
    \* ---- EmbeddingClient.embed_texts and the caller's upsert_embeddings ----
    epc,             \* position inside embed_texts
    texts,           \* argument texts
    batch_start,     \* i of the for loop over range(0, len(texts), BATCH_SIZE)
    attempt,         \* attempt of the for loop in _embed_batch
    truncated_to,    \* the length the payload's texts are cut to
    all_embeddings,  \* local of embed_texts
    ind_results,     \* results of _embed_individually
    embed_outcome,   \* "none" | "returned" | "raised"
    embeddings,      \* the caller's local: the list embed_texts returned
    stored,          \* the (chunk_id, embedding) pairs written by upsert_embeddings
    \* ---- RateLimitMiddleware ----
    clock,           \* time.time()
    _request_log,    \* {ip: [timestamp, ...]}
    _request_count,  \* the module counter, modulo the cleanup period
    response,        \* the response to the last request
    handled          \* the requests passed on to call_next, in order

slocals == <<pc, query, top_k, page_type, game_mode, embedding, vector_rows,
             title_rows, matched_titles, shadowed, seen_ids, interim, referenced,
             ref_i, result, outcome, failed, store_log>>
svars == <<slocals, title_index, wiki_pages>>
cvars == <<cpc, title, content, sections, sec_i, buffer_header, buffer_content,
           chunks>>
mvars == <<dgm_pc, dgm_text, dgm_title, game_modes>>
ivars == <<ipc, wiki_content, embed_client, page, page_chunks, chunked, chunk_ids,
           status, runs, content_hash, db_chunks, db_embeddings, next_id,
           old_searchable>>
\* what the actions of one specification leave alone outside its own variables
kvars == <<calls, store_tie>>
evars == <<epc, texts, batch_start, attempt, truncated_to, all_embeddings,
           ind_results, embed_outcome, embeddings, stored>>
rvars == <<clock, _request_log, _request_count, response, handled>>
not_search == <<cvars, mvars, ivars, kvars, evars, rvars>>
not_chunk == <<svars, mvars, ivars, kvars, evars, rvars>>
not_modes == <<svars, cvars, ivars, kvars, evars, rvars>>
not_ingest == <<svars, cvars, mvars, kvars, evars, rvars>>
not_conc == <<slocals, cvars, mvars, ivars, evars, rvars>>
not_embed == <<svars, cvars, mvars, ivars, kvars, rvars>>
not_rate == <<svars, cvars, mvars, ivars, kvars, evars>>
vars == <<svars, cvars, mvars, ivars, kvars, evars, rvars>>

-----------------------------------------------------------------------------
(* Python built-ins used by both modules                                   *)

Min2(a, b) == IF a <= b THEN a ELSE b

UpperChars == "ABCDEFGHIJKLMNOPQRSTUVWXYZ"
LowerChars == "abcdefghijklmnopqrstuvwxyz"

\* str.lower() of one character
LowerChar(c) ==
    IF \E i \in 1..Len(UpperChars) : SubSeq(UpperChars, i, i) = c
    THEN LET i == CHOOSE j \in 1..Len(UpperChars) : SubSeq(UpperChars, j, j) = c
         IN  SubSeq(LowerChars, i, i)
    ELSE c

\* str.lower(): every character lowered, by halves
RECURSIVE Lower(_)
Lower(s) ==
    IF Len(s) = 0 THEN ""
    ELSE IF Len(s) = 1 THEN LowerChar(s)
    ELSE LET h == Len(s) \div 2
         IN  Lower(SubSeq(s, 1, h)) \o Lower(SubSeq(s, h + 1, Len(s)))

\* Python `t in s` for strings
Contains(s, t) ==
    \E i \in 0..(Len(s) - Len(t)) : SubSeq(s, i + 1, i + Len(t)) = t

\* seq[:n]
Take(seq, n) == SubSeq(seq, 1, Min2(n, Len(seq)))

\* " ".join(strs)
RECURSIVE JoinSpace(_)
JoinSpace(strs) ==
    IF strs = <<>> THEN ""
    ELSE IF Len(strs) = 1 THEN strs[1]
    ELSE strs[1] \o " " \o JoinSpace(Tail(strs))

NULL == "NULL"

-----------------------------------------------------------------------------
(* The store read by search: wiki_pages, wiki_chunks, wiki_embeddings.     *)
(* search never writes it.  WikiPages, WikiChunks and WikiEmbeddings are   *)
(* the rows of the fully ingested wiki; the variable wiki_pages holds the  *)
(* pages ingested so far, and a chunk is stored only with its page.  Chunk *)
(* contents carry the metadata prefix that chunk_page puts in front of     *)
(* every chunk.                                                            *)

MaxTopK == 2

WikiPages == {
    [page_id |-> 1, title |-> "Dragon Slayer II"],
    [page_id |-> 2, title |-> "Dragon Slayer I"],
    [page_id |-> 3, title |-> "Bone Voyage"],
    [page_id |-> 4, title |-> "Animal Magnetism"],
    [page_id |-> 5, title |-> "Ghosts Ahoy"],
    [page_id |-> 6, title |-> "Lost City"],
    [page_id |-> 7, title |-> "Magic"] }

WikiChunks == {
    [id |-> 1, page_id |-> 1, title |-> "Dragon Slayer II",
     section_header |-> "Requirements", page_type |-> "quest",
     game_modes |-> {"main", "ironman"},
     content |-> "Page: Dragon Slayer II | Section: Requirements | Type: quest\n\nNeeds Bone Voyage, Animal Magnetism, Ghosts Ahoy, Lost City and Magic."],
    [id |-> 2, page_id |-> 1, title |-> "Dragon Slayer II",
     section_header |-> "Rewards", page_type |-> "quest",
     game_modes |-> {"main", "ironman"},
     content |-> "Page: Dragon Slayer II | Section: Rewards | Type: quest\n\nAccess to Vorkath."],
    [id |-> 3, page_id |-> 2, title |-> "Dragon Slayer I",
     section_header |-> "Requirements", page_type |-> "quest",
     game_modes |-> {"main", "ironman"},
     content |-> "Page: Dragon Slayer I | Section: Requirements | Type: quest\n\n32 quest points."],
    [id |-> 4, page_id |-> 3, title |-> "Bone Voyage",
     section_header |-> "Getting there", page_type |-> "quest",
     game_modes |-> {"main", "ironman"},
     content |-> "Page: Bone Voyage | Section: Getting there | Type: quest\n\nSail from the museum."],
    [id |-> 5, page_id |-> 4, title |-> "Animal Magnetism",
     section_header |-> "Quest requirements", page_type |-> "quest",
     game_modes |-> {"main", "ironman"},
     content |-> "Page: Animal Magnetism | Section: Quest requirements | Type: quest\n\nNeeds Ghosts Ahoy."],
    [id |-> 6, page_id |-> 5, title |-> "Ghosts Ahoy",
     section_header |-> "Walkthrough", page_type |-> "quest",
     game_modes |-> {"main", "ironman"},
     content |-> "Page: Ghosts Ahoy | Section: Walkthrough | Type: quest\n\nTalk to Velorina."],
    [id |-> 7, page_id |-> 6, title |-> "Lost City",
     section_header |-> "Rewards", page_type |-> "quest",
     game_modes |-> {"main", "ironman"},
     content |-> "Page: Lost City | Section: Rewards | Type: quest\n\nAccess to Zanaris."],
    [id |-> 8, page_id |-> 7, title |-> "Magic",
     section_header |-> NULL, page_type |-> "skill",
     game_modes |-> {"main"},
     content |-> "Page: Magic | Type: skill\n\nRunes are traded, see Lost City."],
    [id |-> 9, page_id |-> 1, title |-> "Dragon Slayer II",
     section_header |-> "Walkthrough", page_type |-> "quest",
     game_modes |-> {"main", "ironman"},
     content |-> "Page: Dragon Slayer II | Section: Walkthrough | Type: quest\n\nTalk to Alec Kincade."],
    [id |-> 10, page_id |-> 7, title |-> "Magic",
     section_header |-> "Training", page_type |-> "skill",
     game_modes |-> {"main", "ironman"},
     content |-> "Page: Magic | Section: Training | Type: skill\n\nCast spells."] }

\* chunk ids that have a row in wiki_embeddings (chunk 10 is not embedded yet)
WikiEmbeddings == {1, 2, 3, 4, 5, 6, 7, 8, 9}

\* The embedding provider is a black box: a query is mapped to one of these
\* vectors.  Similarity(v, id) is 1 - (we.embedding <=> v) in hundredths,
\* in [0, 100] as the store interface promises.
QueryVectors == {"va", "vb", "vc"}

Similarity(v, id) ==
    IF v = "va"
    THEN <<62, 55, 97, 40, 95, 30, 30, 10, 50, 99>>[id]
    ELSE IF v = "vb"
    THEN <<95, 80, 20, 95, 50, 60,  0, 45, 35, 99>>[id]
    ELSE <<58, 20, 20, 55, 50, 30,  0, 45, 35, 99>>[id]

Queries == {
    "Dragon Slayer II requirements",
    "where is bone voyage",
    "magic price",
    "how to fish" }

PageTypes == {NULL, "quest"}
GameModes == {NULL, "ironman"}

\* the stores a search can run against: the whole wiki, or only the pages
\* whose titles are too short for the title index
Stores == {WikiPages, {p \in WikiPages : Len(p.title) < 6}}

\* wiki_chunks: wc.page_id references wiki_pages
StoredChunks == {c \in WikiChunks : \E p \in wiki_pages : p.page_id = c.page_id}

PageOf(c) == CHOOSE p \in wiki_pages : p.page_id = c.page_id

\* ($3::text IS NULL OR wc.page_type = $3) AND ($4::text IS NULL OR $4 = ANY(wc.game_modes))
PassesFilters(c, pt, gm) ==
    /\ (pt = NULL \/ c.page_type = pt)
    /\ (gm = NULL \/ gm \in c.game_modes)

\* The order SQL leaves open between rows with equal sort keys: the store may
\* return them in either order of id.
TieOrders == {"asc", "desc"}
TieKey(id, tie) == IF tie = "asc" THEN id ELSE 99 - id

\* rows of a SELECT: the chunks of S in increasing order of key, LIMIT n
RECURSIVE OrderBy(_, _)
OrderBy(S, key) ==
    IF S = {} THEN <<>>
    ELSE LET c == CHOOSE x \in S : \A y \in S : key[x] <= key[y]
         IN  <<c>> \o OrderBy(S \ {c}, key)

Row(c, v) ==
    [chunk_id |-> c.id, page_title |-> c.title, section_header |-> c.section_header,
     content |-> c.content, page_type |-> c.page_type, similarity |-> Similarity(v, c.id)]
RowsOf(cs, v) == [i \in 1..Len(cs) |-> Row(cs[i], v)]

\* search_wiki($1, $2, $3, $4): the top_k embedded chunks by similarity
SearchWiki(v, k, pt, gm, tie) ==
    LET S == {c \in StoredChunks : c.id \in WikiEmbeddings /\ PassesFilters(c, pt, gm)}
        key == [c \in S |-> (100 - Similarity(v, c.id)) * 100 + TieKey(c.id, tie)]
    IN  RowsOf(Take(OrderBy(S, key), k), v)

\* the Pass 2 SELECT
TitleQuery(v, q, pt, gm, limit, tie) ==
    LET S == {c \in StoredChunks :
                /\ c.id \in WikiEmbeddings
                /\ Contains(Lower(q), Lower(PageOf(c).title))
                /\ Len(PageOf(c).title) >= 4
                /\ PassesFilters(c, pt, gm)}
        key == [c \in S |-> (100 - Len(PageOf(c).title)) * 10000
                            + (100 - Similarity(v, c.id)) * 100 + TieKey(c.id, tie)]
    IN  RowsOf(Take(OrderBy(S, key), limit), v)

\* the Pass 3 SELECT
XrefQuery(v, ref_title, pt, gm, limit, tie) ==
    LET S == {c \in StoredChunks :
                /\ c.id \in WikiEmbeddings
                /\ Lower(c.title) = Lower(ref_title)
                /\ PassesFilters(c, pt, gm)}
        key == [c \in S |-> (100 - Similarity(v, c.id)) * 100 + TieKey(c.id, tie)]
    IN  RowsOf(Take(OrderBy(S, key), limit), v)

\* SELECT title FROM wiki_pages WHERE LENGTH(title) >= 6, in page_id order
TitleRowsOfIndex ==
    LET S == {p \in wiki_pages : Len(p.title) >= 6}
        key == [p \in S |-> p.page_id]
    IN  OrderBy(S, key)

-----------------------------------------------------------------------------
(* vector_search.py: constants and pure helpers                            *)

TITLE_BOOST == 30
SECTION_BOOST == 10
XREF_BOOST == 20
MaxRefs == 3          \* _find_references stops at len(found) >= 3
TopScan == 3          \* interim[:3]
TitleLimitFactor == 3 \* top_k * 3

_SECTION_KEYWORDS == <<
    [trigger |-> "requirement", sections |-> {"requirements", "details", "quest requirements", "skill requirements"}],
    [trigger |-> "drop",        sections |-> {"drops", "drop rates", "loot", "rare drop table"}],
    [trigger |-> "strateg",     sections |-> {"strategy", "strategies", "guide", "walkthrough"}],
    [trigger |-> "reward",      sections |-> {"rewards", "completion"}],
    [trigger |-> "location",    sections |-> {"location", "getting there", "how to get there"}],
    [trigger |-> "how to get",  sections |-> {"location", "getting there", "transportation"}],
    [trigger |-> "where",       sections |-> {"location", "getting there"}],
    [trigger |-> "spec",        sections |-> {"special attack", "combat"}],
    [trigger |-> "stats",       sections |-> {"stats", "bonuses", "combat stats"}],
    [trigger |-> "price",       sections |-> {"price", "value", "cost", "exchange"}],
    [trigger |-> "quest",       sections |-> {"details", "requirements", "rewards", "walkthrough"}] >>

_extract_section_keywords(q) ==
    UNION {_SECTION_KEYWORDS[i].sections :
             i \in {j \in 1..Len(_SECTION_KEYWORDS) :
                      Contains(Lower(q), _SECTION_KEYWORDS[j].trigger)}}

\* sorted(seq, key=..., reverse=True) and list.sort(key=..., reverse=True):
\* stable, so equal keys keep their order.  key[i] is the key of seq[i].
RECURSIVE SortIdx(_, _)
SortIdx(rem, key) ==
    IF rem = {} THEN <<>>
    ELSE LET i == CHOOSE x \in rem :
                    \A y \in rem : key[x] > key[y] \/ (key[x] = key[y] /\ x <= y)
         IN  <<i>> \o SortIdx(rem \ {i}, key)

StableSortDesc(seq, key) ==
    LET idx == SortIdx(1..Len(seq), key)
    IN  [j \in 1..Len(seq) |-> seq[idx[j]]]

\* sorted(seen_ids.values(), key=lambda r: r.similarity, reverse=True)
SortBySimilarity(rs) == StableSortDesc(rs, [i \in 1..Len(rs) |-> rs[i].similarity])

\* the pairs in the order the store returned the rows, the sort left out
BuildTitleIndexUnsorted(rows) ==
    [i \in 1..Len(rows) |-> <<Lower(rows[i].title), rows[i].title>>]

\* the value _get_title_index builds from the rows
BuildTitleIndex(rows) ==
    LET titles == [i \in 1..Len(rows) |-> <<Lower(rows[i].title), rows[i].title>>]
    IN  StableSortDesc(titles, [i \in 1..Len(titles) |-> Len(titles[i][1])])

\* row["section_header"] or ""
OrEmpty(h) == IF h = NULL THEN "" ELSE h

\* the boost of a row: base boost, plus SECTION_BOOST when the section header
\* contains one of the query's section keywords
BoostOf(base, row, section_keywords) ==
    LET section == Lower(OrEmpty(row.section_header))
    IN  IF /\ section # ""
           /\ section_keywords # {}
           /\ \E kw \in section_keywords : Contains(section, kw)
        THEN base + SECTION_BOOST
        ELSE base

SearchResult(row, sim) ==
    [chunk_id |-> row.chunk_id, title |-> row.page_title,
     section_header |-> row.section_header, content |-> row.content,
     page_type |-> row.page_type, similarity |-> sim]

\* the boost added without the cap
BoostedUncapped(sim, boost) == sim + boost

\* min(row["similarity"] + boost, 1.0)
Boosted(sim, boost) == Min2(sim + boost, 100)

HasId(seen, cid) == \E i \in 1..Len(seen) : seen[i].chunk_id = cid

\* seen_ids[cid] = r on an insertion-ordered dict
DictSet(seen, r) ==
    IF HasId(seen, r.chunk_id)
    THEN [i \in 1..Len(seen) |-> IF seen[i].chunk_id = r.chunk_id THEN r ELSE seen[i]]
    ELSE Append(seen, r)

\* lines 222-230: the matched titles and the shadowed ones among them
MatchedTitles(rows) == {Lower(rows[i].page_title) : i \in 1..Len(rows)}

\* the containment test the wrong way round: the longer title is dropped
ShadowedReversed(matched) ==
    {t \in matched : \E other \in matched :
        t # other /\ Contains(t, other) /\ Len(t) > Len(other)}

Shadowed(matched) ==
    {t \in matched : \E other \in matched :
        t # other /\ Contains(other, t) /\ Len(t) < Len(other)}

\* lines 238-259: the loop over title_rows
RECURSIVE MergeTitleRows(_, _, _, _)
MergeTitleRows(seen, rows, shadow, kws) ==
    IF rows = <<>> THEN seen
    ELSE LET row == Head(rows)
         IN  IF Lower(row.page_title) \in shadow
             THEN MergeTitleRows(seen, Tail(rows), shadow, kws)
             ELSE MergeTitleRows(
                    DictSet(seen, SearchResult(row,
                        Boosted(row.similarity, BoostOf(TITLE_BOOST, row, kws)))),
                    Tail(rows), shadow, kws)

\* the loop over vector_rows without the `cid not in seen_ids` test: the
\* Pass 1 row overwrites the entry
RECURSIVE MergeVectorRowsOverwriting(_, _)
MergeVectorRowsOverwriting(seen, rows) ==
    IF rows = <<>> THEN seen
    ELSE MergeVectorRowsOverwriting(
            DictSet(seen, SearchResult(Head(rows), Head(rows).similarity)),
            Tail(rows))

\* lines 261-272: the loop over vector_rows
RECURSIVE MergeVectorRows(_, _)
MergeVectorRows(seen, rows) ==
    IF rows = <<>> THEN seen
    ELSE LET row == Head(rows)
         IN  IF HasId(seen, row.chunk_id)
             THEN MergeVectorRows(seen, Tail(rows))
             ELSE MergeVectorRows(Append(seen, SearchResult(row, row.similarity)),
                                  Tail(rows))

\* the loop over xref_rows without the `cid not in seen_ids` test: a
\* cross-referenced row overwrites the entry, boosted
RECURSIVE MergeXrefRowsOverwriting(_, _, _)
MergeXrefRowsOverwriting(seen, rows, kws) ==
    IF rows = <<>> THEN seen
    ELSE MergeXrefRowsOverwriting(
            DictSet(seen, SearchResult(Head(rows),
                Boosted(Head(rows).similarity, BoostOf(XREF_BOOST, Head(rows), kws)))),
            Tail(rows), kws)

\* lines 318-334: the loop over xref_rows
RECURSIVE MergeXrefRows(_, _, _)
MergeXrefRows(seen, rows, kws) ==
    IF rows = <<>> THEN seen
    ELSE LET row == Head(rows)
         IN  IF HasId(seen, row.chunk_id)
             THEN MergeXrefRows(seen, Tail(rows), kws)
             ELSE MergeXrefRows(
                    Append(seen, SearchResult(row,
                        Boosted(row.similarity, BoostOf(XREF_BOOST, row, kws)))),
                    Tail(rows), kws)

\* " ".join(r.content for r in interim[:3])
TopContent(sorted) ==
    LET top == Take(sorted, TopScan)
    IN  JoinSpace([i \in 1..Len(top) |-> top[i].content])

\* _find_references: the loop over self._title_index from position i
RECURSIVE FindFrom(_, _, _, _, _, _, _)
FindFrom(index, i, found, found_lower, content_lower, query_lower, exclude_titles) ==
    IF i > Len(index) THEN found
    ELSE LET title_lower == index[i][1]
             title_original == index[i][2]
         IN  IF title_lower \in exclude_titles \/ title_lower \in found_lower
             THEN FindFrom(index, i + 1, found, found_lower, content_lower,
                           query_lower, exclude_titles)
             ELSE IF Contains(query_lower, title_lower)
             THEN FindFrom(index, i + 1, found, found_lower, content_lower,
                           query_lower, exclude_titles)
             ELSE IF Contains(content_lower, title_lower)
             THEN IF Len(found) + 1 >= MaxRefs
                  THEN Append(found, title_original)
                  ELSE FindFrom(index, i + 1, Append(found, title_original),
                                found_lower \cup {title_lower}, content_lower,
                                query_lower, exclude_titles)
             ELSE FindFrom(index, i + 1, found, found_lower, content_lower,
                           query_lower, exclude_titles)

\* self._title_index is None, or a list
NoIndex == [set |-> FALSE, val |-> <<>>]
IndexOf(val) == [set |-> TRUE, val |-> val]

\* the cache test written `if not self._title_index`: an empty list is loaded again
IsCachedTruthy(index) == index.set /\ index.val # <<>>

\* line 115: `if self._title_index is None` is false once a list is assigned
IsCached(index) == index.set

\* the loaded titles appended to the attribute instead of replacing it
ExtendLoaded(current, built) == IndexOf(current.val \o built.val)

\* line 121: self._title_index = titles
AssignLoaded(current, built) == built

\* the attribute set to an empty list ahead of the awaited fetch
IndexEmptyWhileLoading(index) == IndexOf(<<>>)

\* lines 115-121: the attribute is not written until the list is built
IndexWhileLoading(index) == index

\* _find_references called ahead of _get_title_index: it reads the old attribute
IndexBeforeLoad(before, after) == before

\* lines 282-284: _find_references runs after _get_title_index has returned and
\* reads self._title_index, the attribute the load has just assigned
IndexAtFindReferences(before, after) == after

\* _find_references without the `title_lower in query_lower` test
FindReferencesIgnoringQuery(index, text, q, exclude_titles) ==
    FindFrom(index.val, 1, <<>>, {}, Lower(text), "", exclude_titles)

\* _find_references(content, query, exclude_titles); `self._title_index or []`
_find_references(index, text, q, exclude_titles) ==
    FindFrom(index.val, 1, <<>>, {}, Lower(text), Lower(q), exclude_titles)

-----------------------------------------------------------------------------
(* VectorSearch.search, one action per await point                         *)

RateIdle ==
    /\ clock = 0 /\ _request_log = <<>> /\ _request_count = 0
    /\ response = <<>> /\ handled = <<>>

EmbedIdle ==
    /\ epc = "off" /\ texts = <<>> /\ batch_start = 0 /\ attempt = 0
    /\ truncated_to = 0 /\ all_embeddings = <<>> /\ ind_results = <<>>
    /\ embed_outcome = "none" /\ embeddings = <<>> /\ stored = {}

ConcIdle ==
    /\ calls = <<>> /\ store_tie = "asc"

IngestIdle ==
    /\ ipc = "off" /\ wiki_content = 0 /\ embed_client = FALSE /\ page = 0
    /\ page_chunks = <<>> /\ chunked = FALSE /\ chunk_ids = <<>> /\ status = "none"
    /\ runs = 0 /\ content_hash = 0 /\ db_chunks = {} /\ db_embeddings = {}
    /\ next_id = 1 /\ old_searchable = {}

ModesIdle ==
    /\ dgm_pc = "off" /\ dgm_text = "" /\ dgm_title = "" /\ game_modes = <<>>

ChunkIdle ==
    /\ cpc = "off" /\ title = "" /\ content = <<>> /\ sections = <<>>
    /\ sec_i = 0 /\ buffer_header = "" /\ buffer_content = <<>> /\ chunks = <<>>

SearchLocalsInit ==
    /\ embedding = NULL /\ vector_rows = <<>> /\ title_rows = <<>>
    /\ matched_titles = {} /\ shadowed = {} /\ seen_ids = <<>> /\ interim = <<>>
    /\ referenced = <<>> /\ ref_i = 0 /\ result = <<>>
    /\ outcome = "none" /\ failed = "none" /\ store_log = <<>>

SearchLocalsIdle ==
    /\ pc = "idle"
    /\ query = "" /\ top_k = 0 /\ page_type = NULL /\ game_mode = NULL
    /\ SearchLocalsInit

\* VectorSearch.__init__
Init ==
    /\ SearchLocalsIdle
    /\ title_index = NoIndex
    /\ wiki_pages \in Stores
    /\ ChunkIdle
    /\ ModesIdle
    /\ IngestIdle
    /\ ConcIdle
    /\ EmbedIdle
    /\ RateIdle

\* a caller invokes search(query, top_k, page_type, game_mode)
Call ==
    /\ pc = "idle"
    /\ \E q \in Queries, k \in 0..MaxTopK, pt \in PageTypes, gm \in GameModes :
          /\ query' = q /\ top_k' = k /\ page_type' = pt /\ game_mode' = gm
    /\ embedding' = NULL /\ vector_rows' = <<>> /\ title_rows' = <<>>
    /\ matched_titles' = {} /\ shadowed' = {} /\ seen_ids' = <<>> /\ interim' = <<>>
    /\ referenced' = <<>> /\ ref_i' = 0 /\ result' = <<>>
    /\ outcome' = "none" /\ failed' = "none" /\ store_log' = <<>>
    /\ pc' = "embed"
    /\ UNCHANGED <<title_index, wiki_pages, not_search>>

\* lines 175-177: except Exception around embed_query: log, return []
EmbedFailed ==
    /\ failed' = "embed"
    /\ result' = <<>>
    /\ outcome' = "returned"
    /\ pc' = "done"

\* the store block without its except clause: the exception reaches the caller
StoreFailedRaises(where) ==
    /\ failed' = where
    /\ result' = <<>>
    /\ outcome' = "raised"
    /\ pc' = "done"

\* lines 348-350: except Exception around the store block: log, return []
StoreFailed(where) ==
    /\ failed' = where
    /\ result' = <<>>
    /\ outcome' = "returned"
    /\ pc' = "done"

\* lines 173-177: await self.embed_query(query)
EmbedQuery ==
    /\ pc = "embed"
    /\ \/ /\ \E v \in QueryVectors : embedding' = v
          /\ pc' = "acquire"
          /\ UNCHANGED <<result, outcome, failed>>
       \/ /\ EmbedFailed
          /\ UNCHANGED embedding
    /\ UNCHANGED <<query, top_k, page_type, game_mode, vector_rows, title_rows,
                   matched_titles, shadowed, seen_ids, interim, referenced, ref_i,
                   title_index, store_log, wiki_pages, not_search>>

\* line 180: async with self.pool.acquire() as conn
Acquire ==
    /\ pc = "acquire"
    /\ \/ /\ pc' = "pass1"
          /\ UNCHANGED <<result, outcome, failed>>
       \/ StoreFailed("acquire")
    /\ UNCHANGED <<query, top_k, page_type, game_mode, embedding, vector_rows,
                   title_rows, matched_titles, shadowed, seen_ids, interim,
                   referenced, ref_i, title_index, store_log, wiki_pages, not_search>>

\* lines 182-188: Pass 1
Pass1 ==
    /\ pc = "pass1"
    /\ store_log' = Append(store_log, [q |-> "search_wiki", arg |-> ""])
    /\ \/ /\ \E tie \in TieOrders :
                vector_rows' = SearchWiki(embedding, top_k, page_type, game_mode, tie)
          /\ pc' = "pass2"
          /\ UNCHANGED <<result, outcome, failed>>
       \/ /\ StoreFailed("pass1")
          /\ UNCHANGED vector_rows
    /\ UNCHANGED <<query, top_k, page_type, game_mode, embedding, title_rows,
                   matched_titles, shadowed, seen_ids, interim, referenced, ref_i,
                   title_index, wiki_pages, not_search>>

\* lines 192-233: Pass 2 and the shadow filter
Pass2 ==
    /\ pc = "pass2"
    /\ store_log' = Append(store_log, [q |-> "title_match", arg |-> query])
    /\ \/ /\ \E tie \in TieOrders :
                title_rows' = TitleQuery(embedding, query, page_type, game_mode,
                                         top_k * TitleLimitFactor, tie)
          /\ matched_titles' = MatchedTitles(title_rows')
          /\ shadowed' = Shadowed(matched_titles')
          /\ pc' = "merge_title"
          /\ UNCHANGED <<result, outcome, failed>>
       \/ /\ StoreFailed("pass2")
          /\ UNCHANGED <<title_rows, matched_titles, shadowed>>
    /\ UNCHANGED <<query, top_k, page_type, game_mode, embedding, vector_rows,
                   seen_ids, interim, referenced, ref_i, title_index, wiki_pages, not_search>>

\* lines 236-259: seen_ids receives the unshadowed title rows, boosted
MergeTitle ==
    /\ pc = "merge_title"
    /\ seen_ids' = MergeTitleRows(<<>>, title_rows, shadowed,
                                  _extract_section_keywords(query))
    /\ pc' = "merge_vector"
    /\ UNCHANGED <<query, top_k, page_type, game_mode, embedding, vector_rows,
                   title_rows, matched_titles, shadowed, interim, referenced, ref_i,
                   title_index, result, outcome, failed, store_log, wiki_pages, not_search>>

\* lines 261-279: the unseen vector rows, then interim
MergeVector ==
    /\ pc = "merge_vector"
    /\ seen_ids' = MergeVectorRows(seen_ids, vector_rows)
    /\ interim' = SortBySimilarity(seen_ids')
    /\ pc' = IF TopContent(interim') # "" THEN "index" ELSE "final"
    /\ UNCHANGED <<query, top_k, page_type, game_mode, embedding, vector_rows,
                   title_rows, matched_titles, shadowed, referenced, ref_i,
                   title_index, result, outcome, failed, store_log, wiki_pages, not_search>>

\* lines 282-284: _get_title_index (a store query only when not cached),
\* then _find_references
Pass3Index ==
    /\ pc = "index"
    /\ \/ /\ IsCached(title_index)
          /\ UNCHANGED <<title_index, store_log>>
          /\ referenced' = _find_references(
                               IndexAtFindReferences(title_index, title_index'),
                               TopContent(interim), query,
                               matched_titles \cup shadowed)
          /\ ref_i' = 1
          /\ pc' = "xref"
          /\ UNCHANGED <<result, outcome, failed>>
       \/ /\ ~IsCached(title_index)
          /\ store_log' = Append(store_log, [q |-> "title_index", arg |-> ""])
          /\ \/ /\ title_index' = AssignLoaded(IndexWhileLoading(title_index),
                                             IndexOf(BuildTitleIndex(TitleRowsOfIndex)))
                /\ referenced' = _find_references(
                                     IndexAtFindReferences(title_index, title_index'),
                                     TopContent(interim), query,
                                     matched_titles \cup shadowed)
                /\ ref_i' = 1
                /\ pc' = "xref"
                /\ UNCHANGED <<result, outcome, failed>>
             \/ /\ StoreFailed("index")
                /\ UNCHANGED <<title_index, referenced, ref_i>>
    /\ UNCHANGED <<query, top_k, page_type, game_mode, embedding, vector_rows,
                   title_rows, matched_titles, shadowed, seen_ids, interim, wiki_pages,
                   not_search>>

\* lines 291-334: one iteration of the loop over referenced
Xref ==
    /\ pc = "xref"
    /\ ref_i <= Len(referenced)
    /\ store_log' = Append(store_log, [q |-> "xref", arg |-> referenced[ref_i]])
    /\ \/ /\ \E tie \in TieOrders :
                seen_ids' = MergeXrefRows(seen_ids,
                               XrefQuery(embedding, referenced[ref_i], page_type,
                                         game_mode, top_k, tie),
                               _extract_section_keywords(query))
          /\ ref_i' = ref_i + 1
          /\ UNCHANGED <<pc, result, outcome, failed>>
       \/ /\ StoreFailed("xref")
          /\ UNCHANGED <<seen_ids, ref_i>>
    /\ UNCHANGED <<query, top_k, page_type, game_mode, embedding, vector_rows,
                   title_rows, matched_titles, shadowed, interim, referenced,
                   title_index, wiki_pages, not_search>>

\* the slice taken without the final sort
FinalResultsUnsorted(seen, k) == Take(seen, k)

\* lines 337-346: results[:top_k] of the sorted merged set
FinalResults(seen, k) == Take(SortBySimilarity(seen), k)

\* lines 336-346: final sort and return
FinalReturn ==
    /\ \/ pc = "final"
       \/ pc = "xref" /\ ref_i > Len(referenced)
    /\ result' = FinalResults(seen_ids, top_k)
    /\ outcome' = "returned"
    /\ pc' = "done"
    /\ UNCHANGED <<query, top_k, page_type, game_mode, embedding, vector_rows,
                   title_rows, matched_titles, shadowed, seen_ids, interim,
                   referenced, ref_i, title_index, failed, store_log, wiki_pages, not_search>>

\* the caller has the result; the instance is ready for the next call
Finish ==
    /\ pc = "done"
    /\ pc' = "idle"
    /\ UNCHANGED <<query, top_k, page_type, game_mode, embedding, vector_rows,
                   title_rows, matched_titles, shadowed, seen_ids, interim,
                   referenced, ref_i, title_index, result, outcome, failed,
                   store_log, wiki_pages, not_search>>

Next ==
    \/ Call
    \/ EmbedQuery
    \/ Acquire
    \/ Pass1
    \/ Pass2
    \/ MergeTitle
    \/ MergeVector
    \/ Pass3Index
    \/ Xref
    \/ FinalReturn
    \/ Finish

Spec == Init /\ [][Next]_vars

-----------------------------------------------------------------------------
(* Properties of VectorSearch.search                                       *)

ResultIds(rs) == {rs[i].chunk_id : i \in 1..Len(rs)}
IsSortedDesc(rs) ==
    \A i, j \in 1..Len(rs) : i < j => rs[i].similarity >= rs[j].similarity
UniqueIds(rs) ==
    \A i, j \in 1..Len(rs) : rs[i].chunk_id = rs[j].chunk_id => i = j

\* C1: search never raises; when embed_query, the connection acquire, Pass 1
\* or Pass 2 raises, the call returns the empty list, and after an embedding
\* failure no store query has been issued.
C1_GracefulDegradation ==
    /\ outcome # "raised"
    /\ (pc = "done" /\ failed \in {"embed", "acquire", "pass1", "pass2"}) =>
          /\ outcome = "returned"
          /\ result = <<>>
          /\ (failed = "embed" => store_log = <<>>)

\* Pass 2 raises after Pass 1 has returned rows: the rows are dropped
C1_Witness ==
    /\ pc = "done" /\ failed = "pass2"
    /\ vector_rows # <<>>
    /\ Len(store_log) = 2

\* C2: search returns the first top_k entries of the merged set in
\* non-increasing similarity: at most top_k entries, all of them candidates,
\* none repeated, ordered, no candidate left out beats a returned one, and a
\* search that completes returns min(top_k, number of candidates) of them.
C2_RankedTopK ==
    pc = "done" =>
       /\ Len(result) <= top_k
       /\ \A i \in 1..Len(result) : \E j \in 1..Len(seen_ids) : seen_ids[j] = result[i]
       /\ UniqueIds(result)
       /\ IsSortedDesc(result)
       /\ \A j \in 1..Len(seen_ids) :
             seen_ids[j].chunk_id \notin ResultIds(result) =>
                \A i \in 1..Len(result) :
                   seen_ids[j].similarity <= result[i].similarity
       /\ failed = "none" => Len(result) = Min2(top_k, Len(seen_ids))

\* more candidates than top_k, and the insertion order is not the ranking
C2_Witness ==
    /\ pc = "done" /\ failed = "none"
    /\ top_k >= 1
    /\ Len(seen_ids) > top_k
    /\ result # Take(seen_ids, top_k)

\* C3: a store failure in Pass 3 (title index load or a cross-reference
\* fetch) leaves the ranked Pass 1 + Pass 2 results as the return value.
C3_Pass3FailureKeepsResults ==
    (pc = "done" /\ failed \in {"index", "xref"}) => result = Take(interim, top_k)

\* the titles of pages that have a searchable chunk
SearchableTitles ==
    {Lower(PageOf(c).title) : c \in {x \in StoredChunks : x.id \in WikiEmbeddings}}

\* C4: when the query names two titles, one a proper substring of the other,
\* both with chunks in the store, no chunk of the shorter title is returned.
C4_ShadowedTitleNeverReturned ==
    (pc = "done" /\ outcome = "returned") =>
       \A t, other \in SearchableTitles :
          ( /\ t # other
            /\ Contains(other, t)
            /\ Contains(Lower(query), t)
            /\ Contains(Lower(query), other) ) =>
              \A i \in 1..Len(result) : Lower(result[i].title) # t

\* the Pass 2 entry the code builds for a row: title boost, plus section boost
TitleBoostedSimilarity(row) ==
    Min2(row.similarity + BoostOf(TITLE_BOOST, row, _extract_section_keywords(query)),
         100)

\* C5: at the end of the Pass 2 loop, a matched title that is a proper
\* substring of another matched title has no entry in the merged set, and
\* every other matched title has all of its returned rows there, boosted.
C5_ShadowFilterPass2 ==
    pc = "merge_vector" =>
       \A t \in matched_titles :
          IF \E other \in matched_titles : t # other /\ Contains(other, t)
          THEN \A i \in 1..Len(seen_ids) : Lower(seen_ids[i].title) # t
          ELSE \A r \in 1..Len(title_rows) :
                  Lower(title_rows[r].page_title) = t =>
                     \E i \in 1..Len(seen_ids) :
                        /\ seen_ids[i].chunk_id = title_rows[r].chunk_id
                        /\ seen_ids[i].similarity = TitleBoostedSimilarity(title_rows[r])

\* "Dragon Slayer I" and "Dragon Slayer II" are both matched
C5_Witness ==
    /\ pc = "merge_vector"
    /\ "dragon slayer i" \in matched_titles
    /\ "dragon slayer ii" \in matched_titles
    /\ \E r \in 1..Len(title_rows) : title_rows[r].page_title = "Dragon Slayer I"
    /\ \E i \in 1..Len(seen_ids) : seen_ids[i].title = "Dragon Slayer II"

\* the entries of seen_ids by the pass that inserted them
IsTitleEntry(e) ==
    \E r \in 1..Len(title_rows) :
       /\ title_rows[r].chunk_id = e.chunk_id
       /\ Lower(title_rows[r].page_title) \notin shadowed
IsVectorEntry(e) ==
    /\ ~IsTitleEntry(e)
    /\ \E r \in 1..Len(vector_rows) : vector_rows[r].chunk_id = e.chunk_id
IsXrefEntry(e) == ~IsTitleEntry(e) /\ ~IsVectorEntry(e)

\* C6: every similarity is in [0, 1]; an entry boosted in Pass 2 or Pass 3 has
\* min(base + boost, 1.0), so it is exactly 1.0 once base + boost reaches 1.0.
C6_BoostCap ==
    /\ \A i \in 1..Len(result) : result[i].similarity \in 0..100
    /\ \A i \in 1..Len(seen_ids) :
          LET e == seen_ids[i]
              base == Similarity(embedding, e.chunk_id)
          IN  /\ e.similarity \in 0..100
              /\ IsTitleEntry(e) =>
                    /\ \E b \in {TITLE_BOOST, TITLE_BOOST + SECTION_BOOST} :
                          e.similarity = Min2(base + b, 100)
                    /\ base + TITLE_BOOST >= 100 => e.similarity = 100
              /\ IsXrefEntry(e) =>
                    /\ \E b \in {XREF_BOOST, XREF_BOOST + SECTION_BOOST} :
                          e.similarity = Min2(base + b, 100)
                    /\ base + XREF_BOOST >= 100 => e.similarity = 100
              /\ IsVectorEntry(e) => e.similarity = base

\* a Pass 2 entry and a Pass 3 entry with base 0.95 both end at exactly 1.0,
\* and the call returns an entry at 1.0
C6_Witness ==
    /\ pc = "done" /\ failed = "none"
    /\ \E i \in 1..Len(result) : IsTitleEntry(result[i]) /\ result[i].similarity = 100
    /\ \E i, j \in 1..Len(seen_ids) :
          /\ IsTitleEntry(seen_ids[i]) /\ IsXrefEntry(seen_ids[j])
          /\ Similarity(embedding, seen_ids[i].chunk_id) = 95
          /\ Similarity(embedding, seen_ids[j].chunk_id) = 95
          /\ seen_ids[i].similarity = 100 /\ seen_ids[j].similarity = 100

\* the titles for which this call issued a cross-reference fetch
Expanded == {store_log[i].arg : i \in {j \in 1..Len(store_log) : store_log[j].q = "xref"}}
XrefFetches == Cardinality({j \in 1..Len(store_log) : store_log[j].q = "xref"})

\* the indexed titles mentioned in the scanned content that the query does not
\* name and Pass 2 did not match
Mentioned ==
    {p.title : p \in {x \in wiki_pages :
        /\ Len(x.title) >= 6
        /\ Contains(Lower(TopContent(interim)), Lower(x.title))
        /\ ~Contains(Lower(query), Lower(x.title))
        /\ Lower(x.title) \notin matched_titles \cup shadowed}}

\* C7: one search call expands at most 3 distinct referenced titles, none of
\* which occurs in the query or was matched or shadowed in Pass 2.
C7_XrefBoundary ==
    /\ Len(referenced) <= 3
    /\ \A i, j \in 1..Len(referenced) : referenced[i] = referenced[j] => i = j
    /\ XrefFetches <= 3
    /\ XrefFetches = Cardinality(Expanded)
    /\ \A t \in Expanded :
          /\ \E i \in 1..Len(referenced) : referenced[i] = t
          /\ ~Contains(Lower(query), Lower(t))
          /\ Lower(t) \notin matched_titles \cup shadowed

\* four titles are mentioned, three are expanded; the query names a title
\* that Pass 2 did not return and the scanned content contains it
C7_Witness ==
    /\ pc = "done" /\ failed = "none"
    /\ Cardinality(Mentioned) >= 4
    /\ Cardinality(Expanded) = 3
    /\ \E p \in wiki_pages :
          /\ Len(p.title) >= 6
          /\ Contains(Lower(query), Lower(p.title))
          /\ Contains(Lower(TopContent(interim)), Lower(p.title))
          /\ Lower(p.title) \notin matched_titles \cup shadowed

\* the merged set of Pass 1 and Pass 2 is in interim from the end of the
\* merge until the next call
Merged == pc \in {"index", "final", "xref", "done"} /\ failed \notin {"embed", "acquire", "pass1", "pass2"}

\* the section headers a query asks for, from the trigger words it contains
TriggeredSections(q) ==
    {h \in UNION {_SECTION_KEYWORDS[i].sections : i \in 1..Len(_SECTION_KEYWORDS)} :
        \E i \in 1..Len(_SECTION_KEYWORDS) :
            /\ Contains(Lower(q), _SECTION_KEYWORDS[i].trigger)
            /\ h \in _SECTION_KEYWORDS[i].sections}

\* the similarity Pass 2 gives a row
Pass2Similarity(row, q) ==
    LET section_hit == /\ row.section_header # NULL
                       /\ row.section_header # ""
                       /\ \E h \in TriggeredSections(q) :
                              Contains(Lower(row.section_header), h)
        raised == row.similarity + TITLE_BOOST + (IF section_hit THEN SECTION_BOOST ELSE 0)
    IN  IF raised > 100 THEN 100 ELSE raised

\* the chunks returned by both passes whose title is not shadowed, as pairs of
\* positions in vector_rows and title_rows
InBothPasses ==
    {p \in (1..Len(vector_rows)) \X (1..Len(title_rows)) :
        /\ vector_rows[p[1]].chunk_id = title_rows[p[2]].chunk_id
        /\ Lower(title_rows[p[2]].page_title) \notin shadowed}

\* C22: in the merged set of Pass 1 and Pass 2 each chunk identity appears at
\* most once, and a chunk returned by both passes whose title is not shadowed
\* has the Pass 2 entry: similarity min(base + TITLE_BOOST (+ SECTION_BOOST on
\* a section hit), 1.0), never lower than its Pass 1 similarity.
C22_MergeKeepsPass2 ==
    Merged =>
       /\ UniqueIds(interim)
       /\ \A p \in InBothPasses :
              \E i \in 1..Len(interim) :
                 /\ interim[i].chunk_id = title_rows[p[2]].chunk_id
                 /\ interim[i].similarity = Pass2Similarity(title_rows[p[2]], query)
                 /\ interim[i].similarity >= vector_rows[p[1]].similarity

\* a merge in which a chunk returned by both passes got the title boost and
\* the section boost, below the cap, and a shadowed title was left out
C22_Witness ==
    /\ Merged
    /\ shadowed # {}
    /\ \E r \in InBothPasses : \E i \in 1..Len(interim) :
          /\ interim[i].chunk_id = title_rows[r[2]].chunk_id
          /\ interim[i].similarity
                = vector_rows[r[1]].similarity + TITLE_BOOST + SECTION_BOOST
          /\ interim[i].similarity < 100

\* C23: Pass 3 only adds entries: every entry of the merged set of Pass 1 and
\* Pass 2 is in seen_ids unchanged at every point of Pass 3 and after it, also
\* when its page is cross-referenced, and the chunk identities stay unique.
C23_Pass3OnlyAdds ==
    Merged =>
       /\ UniqueIds(seen_ids)
       /\ \A i \in 1..Len(interim) :
              \E j \in 1..Len(seen_ids) : seen_ids[j] = interim[i]

\* Pass 3 has fetched the chunks of a cross-referenced page that has a chunk in
\* the merged set already, and has added other chunks of it
C23_Witness ==
    /\ pc = "xref"
    /\ Len(seen_ids) > Len(interim)
    /\ \E k \in 1..Len(referenced) :
          /\ k < ref_i
          /\ \E i \in 1..Len(interim) :
                Lower(interim[i].title) = Lower(referenced[k])
          /\ \E j \in 1..Len(seen_ids) :
                /\ Lower(seen_ids[j].title) = Lower(referenced[k])
                /\ \A i \in 1..Len(interim) : interim[i].chunk_id # seen_ids[j].chunk_id

\* the title-index queries among the store queries of the call in progress
IndexQueries(log) == Cardinality({j \in 1..Len(log) : log[j].q = "title_index"})

\* C12: once a load of the title index has completed, even one that returned
\* no titles, no step of a later search changes self._title_index or issues
\* another title-index query to the store.
C12_TitleIndexCached ==
    [][title_index.set =>
          /\ title_index' = title_index
          /\ IndexQueries(store_log') <= IndexQueries(store_log)]_vars

\* a call that reached Pass 3 with the empty list cached by an earlier call and
\* finished without a title-index query
C12_Witness ==
    /\ pc = "done" /\ failed = "none"
    /\ title_index = IndexOf(<<>>)
    /\ TopContent(interim) # ""
    /\ IndexQueries(store_log) = 0

\* the stored titles the index covers
IndexedTitles == {p \in wiki_pages : Len(p.title) >= 6}

\* C14: the cached index holds one (lowercased, original) pair for every
\* stored title of length 6 or more and none for a shorter title, in
\* non-increasing order of title length, so that a title comes before every
\* title that is a proper substring of it.
C14_TitleIndexContents ==
    title_index.set =>
       LET idx == title_index.val
       IN  /\ Len(idx) = Cardinality(IndexedTitles)
           /\ {idx[i][2] : i \in 1..Len(idx)} = {p.title : p \in IndexedTitles}
           /\ \A i \in 1..Len(idx) : idx[i][1] = Lower(idx[i][2])
           /\ \A i, j \in 1..Len(idx) :
                 i < j => Len(idx[i][1]) >= Len(idx[j][1])
           /\ \A i, j \in 1..Len(idx) :
                 (idx[i][1] # idx[j][1] /\ Contains(idx[i][1], idx[j][1])) => i < j

\* the index of the whole wiki is loaded: the store returned a shorter title
\* ahead of a longer one, and one indexed title contains another
C14_Witness ==
    /\ title_index.set
    /\ \E i, j \in 1..Len(TitleRowsOfIndex) :
          i < j /\ Len(TitleRowsOfIndex[i].title) < Len(TitleRowsOfIndex[j].title)
    /\ \E i, j \in 1..Len(title_index.val) :
          /\ i < j
          /\ Contains(title_index.val[i][1], title_index.val[j][1])
    /\ \E p \in wiki_pages : Len(p.title) < 6

-----------------------------------------------------------------------------
(* chunker.py.  A page is a sequence of lines.  A header line "## <text>"  *)
(* carries its text; a paragraph line carries its length in characters     *)
(* (0 for a blank line) and its position in the page as identity, so that  *)
(* token estimates are computed from lengths and coverage from identities. *)
(* A text is a sequence of paragraph lines joined by "\n".                 *)

CHARS_PER_TOKEN == 4
MIN_CHUNK_TOKENS == 50
MAX_CHUNK_TOKENS == 1000
OVERLAP_TOKENS == 100

MaxLines == 4

HeaderTexts == {"Drops", "See Also"}
ParaLengths == {0, 12, 240, 1600, 4100}
Titles == {"Abyssal whip", "Gallery"}
PageTypeArg == "item"

HeaderLine(text) == [kind |-> "h", text |-> text, len |-> Len(text) + 3]
ParaLine(n) == [kind |-> "p", text |-> "", len |-> n]
LineChoices == {HeaderLine(h) : h \in HeaderTexts} \cup {ParaLine(n) : n \in ParaLengths}

\* the pages: every sequence of 1..MaxLines lines, each line tagged with its position
Pages ==
    UNION {{[i \in 1..n |-> [kind |-> f[i].kind, text |-> f[i].text,
                             len |-> f[i].len, id |-> i]] :
              f \in [1..n -> LineChoices]} : n \in 1..MaxLines}

\* len("\n".join(lines))
RECURSIVE SumLen(_)
SumLen(lines) == IF lines = <<>> THEN 0 ELSE Head(lines).len + SumLen(Tail(lines))
TextLen(lines) == IF lines = <<>> THEN 0 ELSE SumLen(lines) + Len(lines) - 1

\* estimate_tokens applied to a text of n characters
estimate_tokens(n) == n \div CHARS_PER_TOKEN

IsBlank(line) == line.len = 0

\* str.strip() of a text: leading and trailing blank lines go (non-blank
\* lines of the model have no surrounding whitespace)
RECURSIVE LStrip(_)
LStrip(lines) ==
    IF lines = <<>> THEN <<>>
    ELSE IF IsBlank(Head(lines)) THEN LStrip(Tail(lines)) ELSE lines
RECURSIVE RStrip(_)
RStrip(lines) ==
    IF lines = <<>> THEN <<>>
    ELSE IF IsBlank(lines[Len(lines)]) THEN RStrip(SubSeq(lines, 1, Len(lines) - 1))
    ELSE lines
Strip(lines) == RStrip(LStrip(lines))

\* _split_into_sections: the sections from line i on, cur being the open one
RECURSIVE SplitFrom(_, _, _)
SplitFrom(lines, i, cur) ==
    IF i > Len(lines) THEN <<[header |-> cur.header, body |-> Strip(cur.body)]>>
    ELSE IF lines[i].kind = "h"
         THEN <<[header |-> cur.header, body |-> Strip(cur.body)]>>
              \o SplitFrom(lines, i + 1, [header |-> lines[i].text, body |-> <<>>])
         ELSE SplitFrom(lines, i + 1, [header |-> cur.header,
                                       body |-> Append(cur.body, lines[i])])

\* parts[0] becomes a section only when it is not blank; a headed section is
\* kept when its header or its body is non-empty
_split_into_sections(lines) ==
    LET all == SplitFrom(lines, 1, [header |-> "", body |-> <<>>])
    IN  IF Head(all).body # <<>> THEN all ELSE Tail(all)

\* lines 248-258 of _split_large_text: the trailing paragraphs kept as overlap
RECURSIVE OverlapFrom(_, _, _)
OverlapFrom(current_chunk, i, overlap_paras) ==
    IF i = 0 THEN overlap_paras
    ELSE IF estimate_tokens(TextLen(overlap_paras) + current_chunk[i].len) > OVERLAP_TOKENS
         THEN overlap_paras
         ELSE OverlapFrom(current_chunk, i - 1, <<current_chunk[i]>> \o overlap_paras)

\* the loop of _split_large_text over paragraphs from position i
RECURSIVE SplitLargeFrom(_, _, _, _, _)
SplitLargeFrom(paragraphs, i, out, current_chunk, current_tokens) ==
    IF i > Len(paragraphs)
    THEN IF current_chunk # <<>> THEN Append(out, current_chunk) ELSE out
    ELSE LET para == paragraphs[i]
             para_tokens == estimate_tokens(para.len)
         IN  IF current_tokens + para_tokens > MAX_CHUNK_TOKENS /\ current_chunk # <<>>
             THEN LET overlap_paras == OverlapFrom(current_chunk, Len(current_chunk), <<>>)
                  IN  SplitLargeFrom(paragraphs, i + 1, Append(out, current_chunk),
                                     Append(overlap_paras, para),
                                     estimate_tokens(TextLen(overlap_paras)) + para_tokens)
             ELSE SplitLargeFrom(paragraphs, i + 1, out, Append(current_chunk, para),
                                 current_tokens + para_tokens)

\* _split_large_text(text, MAX_CHUNK_TOKENS, OVERLAP_TOKENS)
_split_large_text(text) == SplitLargeFrom(text, 1, <<>>, <<>>, 0)

ExcludedHeaders == {"references", "external links", "see also", "gallery"}

\* the exclusion test compared without lower()
IsExcludedCaseSensitive(header) == header \in ExcludedHeaders

\* line 107: header.lower() in ("references", "external links", "see also", "gallery")
IsExcluded(header) == Lower(header) \in ExcludedHeaders

\* WikiChunk(...) as appended to chunks; prefix is set by the last loop
WikiChunk(index, header, body, tokens, meta) ==
    [chunk_index |-> index, section_header |-> header, prefix |-> "",
     body |-> Strip(body), token_count |-> tokens, section |-> meta]

\* lines 162-178: the sub-chunks that meet the minimum, appended in order
RECURSIVE EmitSubChunks(_, _, _)
EmitSubChunks(out, subs, header) ==
    IF subs = <<>> THEN out
    ELSE LET sub == Head(subs)
             sub_tokens == estimate_tokens(TextLen(sub))
         IN  IF sub_tokens >= MIN_CHUNK_TOKENS
             THEN EmitSubChunks(Append(out, WikiChunk(Len(out), header, sub,
                                                      sub_tokens, header)),
                                Tail(subs), header)
             ELSE EmitSubChunks(out, Tail(subs), header)

\* the prefix with the Section part written for every chunk
PrefixWithSection(t, header, pt) ==
    "Page: " \o t \o " | Section: " \o header \o " | Type: " \o pt \o "\n\n"

\* lines 199-205: the metadata prefix of a chunk
PrefixOf(t, header, pt) ==
    "Page: " \o t
    \o (IF header # "" /\ header # t THEN " | Section: " \o header ELSE "")
    \o " | Type: " \o pt \o "\n\n"

-----------------------------------------------------------------------------
(* chunk_page(page_id, title, content, page_type, categories)              *)

SearchIdle ==
    /\ SearchLocalsIdle
    /\ title_index = NoIndex
    /\ wiki_pages = WikiPages

\* chunk_page is called with a page of the bounded set
InitChunk ==
    /\ SearchIdle
    /\ ModesIdle
    /\ IngestIdle
    /\ ConcIdle
    /\ EmbedIdle
    /\ RateIdle
    /\ cpc = "start"
    /\ title \in Titles
    /\ content \in Pages
    /\ sections = <<>> /\ sec_i = 0
    /\ buffer_header = "" /\ buffer_content = <<>> /\ chunks = <<>>

\* lines 88-97: the empty-page return, the split, the initial buffer
StartChunking ==
    /\ cpc = "start"
    /\ IF Strip(content) = <<>>
       THEN /\ cpc' = "done"
            /\ UNCHANGED <<sections, sec_i, buffer_header>>
       ELSE /\ sections' = _split_into_sections(content)
            /\ sec_i' = 1
            /\ buffer_header' = title
            /\ cpc' = "loop"
    /\ UNCHANGED <<title, content, buffer_content, chunks, not_chunk>>

\* lines 99-178: one iteration of the loop over sections
ProcessSection ==
    /\ cpc = "loop"
    /\ sec_i <= Len(sections)
    /\ LET section_header == sections[sec_i].header
           header == IF section_header # "" THEN section_header ELSE title
           text == Strip(sections[sec_i].body)
           combined == IF buffer_content # <<>> THEN buffer_content \o text ELSE text
           combined_tokens == estimate_tokens(TextLen(combined))
       IN  IF text = <<>> \/ IsExcluded(header)
           THEN UNCHANGED <<buffer_header, buffer_content, chunks>>
           ELSE IF combined_tokens < MIN_CHUNK_TOKENS
           THEN /\ buffer_content' = combined
                /\ buffer_header' = IF buffer_header = "" \/ buffer_header = title
                                    THEN header ELSE buffer_header
                /\ UNCHANGED chunks
           ELSE IF combined_tokens <= MAX_CHUNK_TOKENS
           THEN /\ chunks' = Append(chunks,
                      WikiChunk(Len(chunks),
                                IF buffer_content # <<>> THEN buffer_header ELSE header,
                                combined, combined_tokens, header))
                /\ buffer_content' = <<>>
                /\ buffer_header' = ""
           ELSE LET buf_tokens == estimate_tokens(TextLen(buffer_content))
                    flushed == IF buffer_content # <<>> /\ buf_tokens >= MIN_CHUNK_TOKENS
                               THEN Append(chunks,
                                      WikiChunk(Len(chunks), buffer_header,
                                                buffer_content, buf_tokens, buffer_header))
                               ELSE chunks
                IN  /\ chunks' = EmitSubChunks(flushed, _split_large_text(text), header)
                    /\ buffer_content' = IF buffer_content # <<>> THEN <<>> ELSE buffer_content
                    /\ buffer_header' = IF buffer_content # <<>> THEN "" ELSE buffer_header
    /\ sec_i' = sec_i + 1
    /\ UNCHANGED <<cpc, title, content, sections, not_chunk>>

\* lines 180-196: flush of the remaining buffer
FinalFlush ==
    /\ cpc = "loop"
    /\ sec_i > Len(sections)
    /\ LET buf_tokens == estimate_tokens(TextLen(buffer_content))
           hdr == IF buffer_header # "" THEN buffer_header ELSE title
       IN  chunks' = IF Strip(buffer_content) # <<>> /\ buf_tokens >= MIN_CHUNK_TOKENS
                     THEN Append(chunks, WikiChunk(Len(chunks), hdr, buffer_content,
                                                   buf_tokens, hdr))
                     ELSE chunks
    /\ cpc' = "prefix"
    /\ UNCHANGED <<title, content, sections, sec_i, buffer_header, buffer_content, not_chunk>>

\* lines 198-207: the metadata prefix and the re-estimated token count
AddPrefix ==
    /\ cpc = "prefix"
    /\ chunks' = [i \in 1..Len(chunks) |->
                    LET prefix == PrefixOf(title, chunks[i].section_header, PageTypeArg)
                    IN  [chunks[i] EXCEPT
                            !.prefix = prefix,
                            !.token_count =
                                estimate_tokens(Len(prefix) + TextLen(chunks[i].body))]]
    /\ cpc' = "done"
    /\ UNCHANGED <<title, content, sections, sec_i, buffer_header, buffer_content, not_chunk>>

NextChunk ==
    \/ StartChunking
    \/ ProcessSection
    \/ FinalFlush
    \/ AddPrefix

SpecChunk == InitChunk /\ [][NextChunk]_vars

-----------------------------------------------------------------------------
(* Properties of chunk_page                                                *)

\* the header line that opens the section of line i (0: the introduction)
OwnHeaderPos(i) ==
    LET hs == {j \in 1..i : content[j].kind = "h"}
    IN  IF hs = {} THEN 0 ELSE CHOOSE j \in hs : \A k \in hs : k <= j

\* the section's own header is one of the four excluded names
InExcludedSection(i) ==
    /\ OwnHeaderPos(i) # 0
    /\ Lower(content[OwnHeaderPos(i)].text) \in ExcludedHeaders

\* the non-blank paragraph lines of the page, by position
BodyIds == {i \in 1..Len(content) : content[i].kind = "p" /\ content[i].len > 0}

\* the positions of the paragraph lines of a text
RECURSIVE IdsOf(_)
IdsOf(lines) ==
    IF lines = <<>> THEN <<>> ELSE <<Head(lines).id>> \o IdsOf(Tail(lines))

\* the non-blank lines of all chunks, concatenated in chunk order
RECURSIVE ChunkLines(_)
ChunkLines(cs) ==
    IF cs = <<>> THEN <<>>
    ELSE SelectSeq(Head(cs).body, LAMBDA l : ~IsBlank(l)) \o ChunkLines(Tail(cs))

\* a sequence with the later repetitions of each element removed
RECURSIVE Dedup(_, _)
Dedup(seq, seen) ==
    IF seq = <<>> THEN <<>>
    ELSE IF Head(seq) \in seen THEN Dedup(Tail(seq), seen)
    ELSE <<Head(seq)>> \o Dedup(Tail(seq), seen \cup {Head(seq)})

\* the non-blank body lines of the non-excluded sections, in page order
RECURSIVE KeptIdsFrom(_)
KeptIdsFrom(i) ==
    IF i > Len(content) THEN <<>>
    ELSE IF i \in BodyIds /\ ~InExcludedSection(i)
         THEN <<i>> \o KeptIdsFrom(i + 1)
         ELSE KeptIdsFrom(i + 1)

PrePrefixTokens(c) == estimate_tokens(TextLen(c.body))

\* C8: every chunk but the last of the page has a pre-prefix token estimate
\* in [MIN_CHUNK_TOKENS, MAX_CHUNK_TOKENS].
C8_ChunkSizeBound ==
    cpc = "done" =>
       \A i \in 1..(Len(chunks) - 1) :
          /\ PrePrefixTokens(chunks[i]) >= MIN_CHUNK_TOKENS
          /\ PrePrefixTokens(chunks[i]) <= MAX_CHUNK_TOKENS

\* C9: the chunk texts, concatenated in order with the overlap repetitions
\* removed, are the body text of the non-excluded sections in page order.
C9_Coverage ==
    cpc = "done" => Dedup(IdsOf(ChunkLines(chunks)), {}) = KeptIdsFrom(1)

\* C10: no chunk holds a line of a section whose header is an excluded name,
\* and a page whose sections all have excluded headers yields no chunk.
C10_ExcludedSections ==
    /\ \A c \in 1..Len(chunks) : \A l \in 1..Len(chunks[c].body) :
          ~InExcludedSection(chunks[c].body[l].id)
    /\ (cpc = "done" /\ \A i \in BodyIds : InExcludedSection(i)) => chunks = <<>>

\* a "See Also" section with a chunk-sized body next to a section that is
\* emitted
C10_Witness ==
    /\ cpc = "done"
    /\ chunks # <<>>
    /\ \E i \in BodyIds :
          /\ InExcludedSection(i)
          /\ content[OwnHeaderPos(i)].text = "See Also"
          /\ content[i].len >= MIN_CHUNK_TOKENS * CHARS_PER_TOKEN

\* the page lines of a section body or of a chunk body
LineIds(lines) == {lines[i].id : i \in 1..Len(lines)}

\* section k reaches the split branch on its own: it is kept and its text
\* alone is estimated above MAX_CHUNK_TOKENS
Oversized(k) ==
    /\ ~IsExcluded(IF sections[k].header # "" THEN sections[k].header ELSE title)
    /\ estimate_tokens(TextLen(Strip(sections[k].body))) > MAX_CHUNK_TOKENS

\* the returned chunks made of lines of section k only
ChunksOfSection(k) ==
    {i \in 1..Len(chunks) :
        /\ LineIds(chunks[i].body) # {}
        /\ LineIds(chunks[i].body) \subseteq LineIds(sections[k].body)}

\* C18: a section estimated above MAX_CHUNK_TOKENS is returned as two or more
\* chunks, whatever its paragraph structure.
C18_OversizedSectionSplit ==
    cpc = "done" =>
       \A k \in 1..Len(sections) :
          Oversized(k) => Cardinality(ChunksOfSection(k)) >= 2

\* the returned chunks made only of text that precedes the first header (the
\* whole text when the page has no header)
IntroChunks ==
    {i \in 1..Len(chunks) :
        /\ LineIds(chunks[i].body) # {}
        /\ \A id \in LineIds(chunks[i].body) : OwnHeaderPos(id) = 0}

\* C20: a returned chunk built from the text before the first header, or from
\* a page without headers, has the empty string as its section header.
C20_IntroHeaderEmpty ==
    cpc = "done" => \A i \in IntroChunks : chunks[i].section_header = ""

\* C21: after the last section, text still held in the buffer is returned as
\* the final chunk of the page, also when it is below MIN_CHUNK_TOKENS.
C21_FinalFlush ==
    (cpc = "done" /\ Strip(buffer_content) # <<>>) =>
        /\ chunks # <<>>
        /\ chunks[Len(chunks)].body = Strip(buffer_content)

\* the sections that gave lines to chunk i
MergedSections(i) ==
    {k \in 1..Len(sections) :
        LineIds(sections[k].body) \cap LineIds(chunks[i].body) # {}}

\* C24: a chunk merged from several sections has the first non-empty header
\* among those sections, in page order, as its section header.
C24_MergedHeader ==
    cpc = "done" =>
       \A i \in 1..Len(chunks) :
          LET named == {k \in MergedSections(i) : sections[k].header # ""}
          IN  (Cardinality(MergedSections(i)) >= 2 /\ named # {}) =>
                 chunks[i].section_header =
                    sections[CHOOSE k \in named : \A j \in named : k <= j].header

\* the stored text of a chunk is prefix \o body; its length
ContentLen(c) == Len(c.prefix) + TextLen(c.body)

\* C25 as stated: every returned chunk starts with the line
\* "Page: <title> | Section: <header> | Type: <page_type>" and a blank line,
\* and its token_count is the estimate of the prefixed text.
C25_PrefixAlwaysHasSection ==
    cpc = "done" =>
       \A i \in 1..Len(chunks) :
          /\ chunks[i].prefix =
                "Page: " \o title \o " | Section: " \o chunks[i].section_header
                \o " | Type: " \o PageTypeArg \o "\n\n"
          /\ chunks[i].token_count = ContentLen(chunks[i]) \div 4

\* C25, amended: the first line is "Page: <title> | Section: <header> |
\* Type: <page_type>" when the chunk's header is not empty and differs from
\* the title, and "Page: <title> | Type: <page_type>" otherwise; a blank line
\* and the chunk's text follow, and token_count is the estimate (length div 4)
\* of the prefixed text.
C25_MetadataPrefix ==
    cpc = "done" =>
       \A i \in 1..Len(chunks) :
          /\ chunks[i].prefix =
                IF chunks[i].section_header # "" /\ chunks[i].section_header # title
                THEN "Page: " \o title \o " | Section: " \o chunks[i].section_header
                     \o " | Type: " \o PageTypeArg \o "\n\n"
                ELSE "Page: " \o title \o " | Type: " \o PageTypeArg \o "\n\n"
          /\ chunks[i].token_count = ContentLen(chunks[i]) \div 4

\* a page returned as a chunk under the title and a chunk under a header
C25_Witness ==
    /\ cpc = "done"
    /\ \E i, j \in 1..Len(chunks) :
          /\ chunks[i].section_header = title
          /\ chunks[j].section_header \notin {"", title}
          /\ chunks[j].token_count > estimate_tokens(TextLen(chunks[j].body))

\* C28: text before the first header is never dropped by the exclusion rule,
\* whatever the title: when it is within the chunk size bounds on its own it
\* is returned in a chunk.
C28_IntroNeverExcluded ==
    (/\ cpc = "done"
     /\ sections # <<>>
     /\ sections[1].header = ""
     /\ estimate_tokens(TextLen(Strip(sections[1].body))) >= MIN_CHUNK_TOKENS
     /\ estimate_tokens(TextLen(Strip(sections[1].body))) <= MAX_CHUNK_TOKENS)
    => \E i \in 1..Len(chunks) :
          LineIds(chunks[i].body) \cap LineIds(sections[1].body) # {}

\* the metadata line chunk_page put at the start of a stored chunk's content,
\* and the chunk's own text after it
StoredPrefix(r) == PrefixOf(r.title, OrEmpty(r.section_header), r.page_type)
StoredBody(r) == SubSeq(r.content, Len(StoredPrefix(r)) + 1, Len(r.content))

\* the entries whose content _find_references scans
Scanned == Take(interim, TopScan)

MentionedInScannedBody(t) ==
    \E i \in 1..Len(Scanned) : Contains(Lower(StoredBody(Scanned[i])), Lower(t))

\* C29: every title the search expands in Pass 3 is mentioned in the body of
\* one of the scanned top-3 chunks; none is there only because it is the page
\* named in the "Page: <title>" line at the start of a scanned chunk.
C29_XrefSecondHop ==
    pc = "xref" => \A k \in 1..Len(referenced) : MentionedInScannedBody(referenced[k])


-----------------------------------------------------------------------------
(* detect_game_modes(text, title, categories)                              *)

ALL_MODES == <<"main", "ironman", "hardcore_ironman", "ultimate_ironman",
               "group_ironman">>
IRONMAN_MODES == <<"ironman", "hardcore_ironman", "ultimate_ironman",
                   "group_ironman">>
MAIN_MODES == <<"main", "group_ironman">>

IRONMAN_TITLE_KEYWORDS == <<"ironman guide", "ironman", "iron man">>
MAIN_ONLY_KEYWORDS == <<"grand exchange price", "buy limit", "trading">>

\* any(kw in s for kw in kws)
AnyIn(kws, s) == \E i \in 1..Len(kws) : Contains(s, kws[i])

\* the two tests in the other order: the text is looked at first
DetectGameModesTextFirst(text, t) ==
    IF AnyIn(MAIN_ONLY_KEYWORDS, Lower(text)) THEN MAIN_MODES
    ELSE IF AnyIn(IRONMAN_TITLE_KEYWORDS, Lower(t)) THEN IRONMAN_MODES
    ELSE ALL_MODES

\* lines 51-69; cats_lower is computed and never read
detect_game_modes(text, t) ==
    IF AnyIn(IRONMAN_TITLE_KEYWORDS, Lower(t)) THEN IRONMAN_MODES
    ELSE IF AnyIn(MAIN_ONLY_KEYWORDS, Lower(text)) THEN MAIN_MODES
    ELSE ALL_MODES

\* page titles and chunk texts handed to detect_game_modes
ModeTitles == {
    "Abyssal whip", "Ironman Guide", "Ultimate Iron Man", "IRONMAN MODE",
    "Iron ore", "Hardcore", "Trading post", "Group ironman/Guide" }
ModeTexts == {
    "", "Grand Exchange price: 2,500 coins", "Buy limit: 70",
    "Trading is not possible here.", "It can be traded.", "buy  limit",
    "An ironman cannot trade; be self-sufficient.", "grand exchange",
    "Dropped by abyssal demons.", "Ironman guide" }

InitModes ==
    /\ SearchIdle
    /\ ChunkIdle
    /\ IngestIdle
    /\ ConcIdle
    /\ EmbedIdle
    /\ RateIdle
    /\ dgm_pc = "call"
    /\ dgm_text \in ModeTexts
    /\ dgm_title \in ModeTitles
    /\ game_modes = <<>>

DetectGameModes ==
    /\ dgm_pc = "call"
    /\ game_modes' = detect_game_modes(dgm_text, dgm_title)
    /\ dgm_pc' = "done"
    /\ UNCHANGED <<dgm_text, dgm_title, not_modes>>

NextModes == DetectGameModes

SpecModes == InitModes /\ [][NextModes]_vars

Modes(list) == {list[i] : i \in 1..Len(list)}

TitleHasIronmanMarker ==
    \E kw \in {"ironman guide", "ironman", "iron man"} : Contains(Lower(dgm_title), kw)
TextHasTradingMarker ==
    \E kw \in {"grand exchange price", "buy limit", "trading"} :
        Contains(Lower(dgm_text), kw)

\* C19: the labels are the four ironman modes when the title contains an
\* ironman marker, whatever the text; otherwise main and group_ironman when
\* the text contains a trading marker; otherwise the five modes.  They are
\* never empty and always among the five modes.
C19_GameModeLabels ==
    dgm_pc = "done" =>
       /\ Modes(game_modes) =
             IF TitleHasIronmanMarker
             THEN {"ironman", "hardcore_ironman", "ultimate_ironman", "group_ironman"}
             ELSE IF TextHasTradingMarker
             THEN {"main", "group_ironman"}
             ELSE {"main", "ironman", "hardcore_ironman", "ultimate_ironman",
                   "group_ironman"}
       /\ Modes(game_modes) # {}
       /\ Modes(game_modes) \subseteq
             {"main", "ironman", "hardcore_ironman", "ultimate_ironman", "group_ironman"}

\* an ironman title over a text with a trading marker: main is excluded
C19_Witness ==
    /\ dgm_pc = "done"
    /\ TitleHasIronmanMarker /\ TextHasTradingMarker
    /\ "main" \notin Modes(game_modes)
    /\ Cardinality(Modes(game_modes)) = 4

-----------------------------------------------------------------------------
(* process_page (scraper/run_scraper.py) over WikiDatabase                 *)
(* (scraper/processing/db.py), for one wiki page.  A content is named by a *)
(* number; chunk_page is taken by the number of chunks it returns for it.  *)
(* A transaction is one step: other connections see its effect whole, or   *)
(* nothing when it raises.                                                 *)

MaxContent == 3
MaxRuns == 3

Contents == 1..MaxContent

\* len(chunk_page(...)) for a content: contents of 2, 0 and 1 chunks (a page
\* that is blank, below MIN_CHUNK_TOKENS or made of excluded sections gives 0)
ChunkCount(c) == (c + 1) % 3

\* the list chunk_page returns, each chunk named by content and chunk_index
ChunksOf(c) == [i \in 1..ChunkCount(c) |-> [ver |-> c, index |-> i - 1]]

\* page.content_hash: distinct contents have distinct hashes
Hash(c) == c

SeqRange(seq) == {seq[i] : i \in 1..Len(seq)}

\* the page's chunks a search can return: wiki_chunks JOIN wiki_embeddings
Searchable ==
    {[ver |-> c.ver, index |-> c.index] : c \in {x \in db_chunks : x.id \in db_embeddings}}

\* the chunks stored for the page
StoredChunkSet == {[ver |-> c.ver, index |-> c.index] : c \in db_chunks}

InitIngest ==
    /\ SearchIdle
    /\ ChunkIdle
    /\ ModesIdle
    /\ ConcIdle
    /\ EmbedIdle
    /\ RateIdle
    /\ ipc = "idle"
    /\ wiki_content \in Contents
    /\ embed_client = FALSE /\ page = 0
    /\ page_chunks = <<>> /\ chunked = FALSE /\ chunk_ids = <<>> /\ status = "none"
    /\ runs = 0 /\ content_hash = 0 /\ db_chunks = {} /\ db_embeddings = {}
    /\ next_id = 1 /\ old_searchable = {}

\* the wiki page is edited between two runs of the scraper
WikiEdit ==
    /\ ipc = "idle"
    /\ \E c \in Contents \ {wiki_content} : wiki_content' = c
    /\ UNCHANGED <<ipc, embed_client, page, page_chunks, chunked, chunk_ids, status,
                   runs, content_hash, db_chunks, db_embeddings, next_id,
                   old_searchable, not_ingest>>

\* run_scraper.py line 86: process_page(wiki, db, embed_client, page_info)
ProcessPage ==
    /\ ipc = "idle"
    /\ runs < MaxRuns
    /\ runs' = runs + 1
    /\ embed_client' \in BOOLEAN
    /\ page' = 0 /\ page_chunks' = <<>> /\ chunked' = FALSE /\ chunk_ids' = <<>>
    /\ status' = "none"
    /\ old_searchable' = Searchable
    /\ ipc' = "fetch"
    /\ UNCHANGED <<wiki_content, content_hash, db_chunks, db_embeddings, next_id,
                   not_ingest>>

\* lines 121-123: except Exception: return "error", 0
Raised ==
    /\ status' = "error"
    /\ ipc' = "done"

\* lines 92-94: page = await wiki.get_page_content(page_id)
GetPageContent ==
    /\ ipc = "fetch"
    /\ \/ /\ page' = wiki_content
          /\ ipc' = "needs_update"
          /\ UNCHANGED status
       \/ /\ status' = "skipped"
          /\ ipc' = "done"
          /\ UNCHANGED page
       \/ /\ Raised
          /\ UNCHANGED page
    /\ UNCHANGED <<wiki_content, embed_client, page_chunks, chunked, chunk_ids, runs,
                   content_hash, db_chunks, db_embeddings, next_id, old_searchable,
                   not_ingest>>

\* db.py lines 72-79: existing_hash != content_hash
page_needs_update(existing_hash, hash) == existing_hash # hash

\* lines 96-97: if not await db.page_needs_update(...): return "skipped", 0
PageNeedsUpdate ==
    /\ ipc = "needs_update"
    /\ \/ /\ page_needs_update(content_hash, Hash(page))
          /\ ipc' = "upsert_page"
          /\ UNCHANGED status
       \/ /\ ~page_needs_update(content_hash, Hash(page))
          /\ status' = "skipped"
          /\ ipc' = "done"
       \/ Raised
    /\ UNCHANGED <<wiki_content, embed_client, page, page_chunks, chunked, chunk_ids,
                   runs, content_hash, db_chunks, db_embeddings, next_id,
                   old_searchable, not_ingest>>

\* line 99 and db.py lines 44-70: await db.upsert_page(page)
UpsertPage ==
    /\ ipc = "upsert_page"
    /\ \/ /\ content_hash' = Hash(page)
          /\ ipc' = "chunk"
          /\ UNCHANGED status
       \/ /\ Raised
          /\ UNCHANGED content_hash
    /\ UNCHANGED <<wiki_content, embed_client, page, page_chunks, chunked, chunk_ids,
                   runs, db_chunks, db_embeddings, next_id, old_searchable,
                   not_ingest>>

\* db.py lines 86-121: `if not chunks: return []`, else DELETE FROM wiki_chunks
\* WHERE page_id = $1 and one INSERT per chunk; the value is the new table
ReplaceChunks(rows, new_chunks, first_id) ==
    IF new_chunks = <<>> THEN rows
    ELSE {[id |-> first_id + i - 1, ver |-> new_chunks[i].ver,
           index |-> new_chunks[i].index] : i \in 1..Len(new_chunks)}

\* lines 101-112: chunk_page, `if not chunks: return "skipped", 0`, then
\* await db.upsert_chunks(chunks), one transaction
UpsertChunks ==
    /\ ipc = "chunk"
    /\ page_chunks' = ChunksOf(page)
    /\ chunked' = TRUE
    /\ \/ /\ db_chunks' = ReplaceChunks(db_chunks, page_chunks', next_id)
          /\ db_embeddings' = {id \in db_embeddings : \E c \in db_chunks' : c.id = id}
          /\ chunk_ids' = [i \in 1..Len(page_chunks') |-> next_id + i - 1]
          /\ next_id' = next_id + Len(page_chunks')
          /\ IF page_chunks' = <<>>
             THEN /\ status' = "skipped"
                  /\ ipc' = "done"
             ELSE IF embed_client
             THEN /\ ipc' = "embed"
                  /\ UNCHANGED status
             ELSE /\ status' = "scraped"
                  /\ ipc' = "done"
       \/ /\ page_chunks' # <<>>
          /\ Raised
          /\ UNCHANGED <<db_chunks, db_embeddings, chunk_ids, next_id>>
    /\ UNCHANGED <<wiki_content, embed_client, page, runs, content_hash,
                   old_searchable, not_ingest>>

\* lines 116-117: embeddings = await embed_client.embed_texts(texts)
EmbedTexts ==
    /\ ipc = "embed"
    /\ \/ /\ ipc' = "upsert_embeddings"
          /\ UNCHANGED status
       \/ Raised
    /\ UNCHANGED <<wiki_content, embed_client, page, page_chunks, chunked, chunk_ids,
                   runs, content_hash, db_chunks, db_embeddings, next_id,
                   old_searchable, not_ingest>>

\* line 118 and db.py lines 123-142: await db.upsert_embeddings(...), one
\* transaction
UpsertEmbeddings ==
    /\ ipc = "upsert_embeddings"
    /\ \/ /\ db_embeddings' = db_embeddings \cup SeqRange(chunk_ids)
          /\ status' = "scraped"
          /\ ipc' = "done"
       \/ /\ Raised
          /\ UNCHANGED db_embeddings
    /\ UNCHANGED <<wiki_content, embed_client, page, page_chunks, chunked, chunk_ids,
                   runs, content_hash, db_chunks, next_id, old_searchable,
                   not_ingest>>

\* the pair is returned to the caller
ProcessPageReturn ==
    /\ ipc = "done"
    /\ ipc' = "idle"
    /\ UNCHANGED <<wiki_content, embed_client, page, page_chunks, chunked, chunk_ids,
                   status, runs, content_hash, db_chunks, db_embeddings, next_id,
                   old_searchable, not_ingest>>

NextIngest ==
    \/ WikiEdit
    \/ ProcessPage
    \/ GetPageContent
    \/ PageNeedsUpdate
    \/ UpsertPage
    \/ UpsertChunks
    \/ EmbedTexts
    \/ UpsertEmbeddings
    \/ ProcessPageReturn

SpecIngest == InitIngest /\ [][NextIngest]_vars

\* the chunks of a content, as a set
CompleteSet(c) == SeqRange(ChunksOf(c))

\* C16: from the moment process_page, given an embedding client, has fetched
\* the page to its return, the page's searchable chunks are the complete set
\* that was searchable when the call began or the complete set of the fetched
\* content, at every instant.
C16_NeverHalfReplaced ==
    (ipc \notin {"idle", "fetch"} /\ page # 0 /\ embed_client) =>
        Searchable \in {old_searchable, CompleteSet(page)}

\* C17: when process_page has re-chunked a page whose content changed and
\* returns without an exception, the chunks stored for the page are exactly
\* the chunks of the new content, also when there are none.
C17_ChunkLifecycle ==
    (ipc = "done" /\ chunked /\ status # "error") =>
        StoredChunkSet = CompleteSet(page)

\* every chunk stored for the page has a row in wiki_embeddings
AllEmbedded == \A c \in db_chunks : c.id \in db_embeddings

\* process_page returned "skipped" because page_needs_update was False
SkippedAsUnchanged ==
    ipc = "done" /\ status = "skipped" /\ page # 0 /\ ~chunked

\* C26: when a run with an embedding client skips a page because
\* page_needs_update is False for the fetched content, the chunks stored for
\* the page are the chunks of that content and each has an embedding, whatever
\* happened in the earlier runs; so a page whose processing failed is not
\* skipped by a later run.
C26_HashFaithful ==
    (SkippedAsUnchanged /\ embed_client) =>
        /\ StoredChunkSet = CompleteSet(page)
        /\ AllEmbedded


-----------------------------------------------------------------------------
(* Two callers run VectorSearch.search on one instance, on one asyncio     *)
(* event loop: the code between two awaits runs without interruption, so   *)
(* one action covers an awaited call and the code up to the next await.    *)
(* The callers share self._title_index and the store.  For one store state *)
(* the store returns rows with equal sort keys in one order, store_tie.    *)

Callers == {1, 2}
ConcQueries == {"Dragon Slayer II requirements", "where is bone voyage"}
ConcTopK == {MaxTopK}
ConcPageTypes == {NULL}
ConcVectors == {"vb"}

NotRead == [set |-> FALSE, val |-> <<"not read">>]

\* the locals of a caller that has not called search yet
NoCall ==
    [pc |-> "idle", query |-> "", top_k |-> 0, page_type |-> NULL, game_mode |-> NULL,
     embedding |-> NULL, after |-> FALSE, vector_rows |-> <<>>, matched_titles |-> {},
     shadowed |-> {}, seen_ids |-> <<>>, interim |-> <<>>, referenced |-> <<>>,
     ref_i |-> 0, result |-> <<>>, failed |-> "none", loads |-> 0,
     index_read |-> NotRead]

InitConc ==
    /\ SearchLocalsIdle
    /\ title_index = NoIndex
    /\ wiki_pages \in Stores
    /\ ChunkIdle
    /\ ModesIdle
    /\ IngestIdle
    /\ EmbedIdle
    /\ RateIdle
    /\ calls = [p \in Callers |-> NoCall]
    /\ store_tie \in TieOrders

\* lines 336-346: final sort and return
Returned(c) == [c EXCEPT !.result = FinalResults(c.seen_ids, c.top_k), !.pc = "done"]

\* lines 175-177 and 348-350: log, return []
Failed(c, where) == [c EXCEPT !.failed = where, !.result = <<>>, !.pc = "done"]

\* lines 284-291: _find_references on the index read from self._title_index,
\* then the first xref fetch, or the return when nothing is referenced
AfterTitleIndex(c, index) ==
    LET refs == _find_references(index, TopContent(c.interim), c.query,
                                 c.matched_titles \cup c.shadowed)
        c1 == [c EXCEPT !.index_read = index, !.referenced = refs, !.ref_i = 1]
    IN  IF refs = <<>> THEN Returned(c1) ELSE [c1 EXCEPT !.pc = "xref"]

\* a caller invokes search; `after` records that the other call had returned
ConcCall(p) ==
    /\ calls[p].pc = "idle"
    /\ \E q \in ConcQueries, k \in ConcTopK, pt \in ConcPageTypes :
          calls' = [calls EXCEPT ![p] =
                       [NoCall EXCEPT !.pc = "embed", !.query = q, !.top_k = k,
                                      !.page_type = pt,
                                      !.after = \A o \in Callers \ {p} :
                                                    calls[o].pc = "done"]]
    /\ UNCHANGED <<title_index, wiki_pages, store_tie, not_conc>>

\* lines 173-177: await self.embed_query(query)
ConcEmbedQuery(p) ==
    /\ calls[p].pc = "embed"
    /\ \/ \E v \in ConcVectors :
             calls' = [calls EXCEPT ![p] = [@ EXCEPT !.embedding = v, !.pc = "acquire"]]
       \/ calls' = [calls EXCEPT ![p] = Failed(@, "embed")]
    /\ UNCHANGED <<title_index, wiki_pages, store_tie, not_conc>>

\* lines 180-188: the connection, then await conn.fetch of Pass 1
ConcPass1(p) ==
    /\ calls[p].pc = "acquire"
    /\ LET c == calls[p]
       IN  \/ calls' = [calls EXCEPT ![p] =
                 [c EXCEPT !.vector_rows = SearchWiki(c.embedding, c.top_k, c.page_type,
                                                      c.game_mode, store_tie),
                           !.pc = "pass2"]]
           \/ calls' = [calls EXCEPT ![p] = Failed(c, "pass1")]
    /\ UNCHANGED <<title_index, wiki_pages, store_tie, not_conc>>

\* lines 192-282: await conn.fetch of Pass 2, the merge of Pass 1 and Pass 2,
\* and _get_title_index up to its await (none when the index is cached)
ConcPass2(p) ==
    /\ calls[p].pc = "pass2"
    /\ LET c == calls[p]
           rows == TitleQuery(c.embedding, c.query, c.page_type, c.game_mode,
                              c.top_k * TitleLimitFactor, store_tie)
           mt == MatchedTitles(rows)
           sh == Shadowed(mt)
           seen == MergeVectorRows(
                      MergeTitleRows(<<>>, rows, sh, _extract_section_keywords(c.query)),
                      c.vector_rows)
           c1 == [c EXCEPT !.matched_titles = mt, !.shadowed = sh, !.seen_ids = seen,
                           !.interim = SortBySimilarity(seen)]
       IN  \/ IF TopContent(c1.interim) = ""
              THEN /\ calls' = [calls EXCEPT ![p] = Returned(c1)]
                   /\ UNCHANGED title_index
              ELSE IF IsCached(title_index)
              THEN /\ calls' = [calls EXCEPT ![p] =
                          AfterTitleIndex(c1, IndexAtFindReferences(title_index,
                                                                    title_index))]
                   /\ UNCHANGED title_index
              ELSE /\ calls' = [calls EXCEPT ![p] =
                                  [c1 EXCEPT !.pc = "index_wait", !.loads = 1]]
                   /\ title_index' = IndexWhileLoading(title_index)
           \/ /\ calls' = [calls EXCEPT ![p] = Failed(c, "pass2")]
              /\ UNCHANGED title_index
    /\ UNCHANGED <<wiki_pages, store_tie, not_conc>>

\* lines 116-123 and 284: the title rows arrive; the list is built, assigned
\* and returned, and _find_references reads it
ConcIndexLoaded(p) ==
    /\ calls[p].pc = "index_wait"
    /\ \/ /\ title_index' = AssignLoaded(title_index,
                                         IndexOf(BuildTitleIndex(TitleRowsOfIndex)))
          /\ calls' = [calls EXCEPT ![p] =
                AfterTitleIndex(@, IndexAtFindReferences(title_index, title_index'))]
       \/ /\ calls' = [calls EXCEPT ![p] = Failed(@, "index")]
          /\ UNCHANGED title_index
    /\ UNCHANGED <<wiki_pages, store_tie, not_conc>>

\* lines 291-346: one xref fetch and merge, then the next fetch or the return
ConcXref(p) ==
    /\ calls[p].pc = "xref"
    /\ LET c == calls[p]
           seen == MergeXrefRows(c.seen_ids,
                                 XrefQuery(c.embedding, c.referenced[c.ref_i],
                                           c.page_type, c.game_mode, c.top_k, store_tie),
                                 _extract_section_keywords(c.query))
           c1 == [c EXCEPT !.seen_ids = seen, !.ref_i = c.ref_i + 1]
       IN  \/ calls' = [calls EXCEPT ![p] =
                           IF c1.ref_i > Len(c.referenced) THEN Returned(c1) ELSE c1]
           \/ calls' = [calls EXCEPT ![p] = Failed(c, "xref")]
    /\ UNCHANGED <<title_index, wiki_pages, store_tie, not_conc>>

NextConc ==
    \/ \E p \in Callers : ConcCall(p)
    \/ \E p \in Callers : ConcEmbedQuery(p)
    \/ \E p \in Callers : ConcPass1(p)
    \/ \E p \in Callers : ConcPass2(p)
    \/ \E p \in Callers : ConcIndexLoaded(p)
    \/ \E p \in Callers : ConcXref(p)

SpecConc == InitConc /\ [][NextConc]_vars

\* a caller whose search has returned a ranked list
Completed(p) == calls[p].pc = "done" /\ calls[p].failed = "none"

SameArguments(c, d) ==
    /\ c.query = d.query /\ c.top_k = d.top_k
    /\ c.page_type = d.page_type /\ c.game_mode = d.game_mode
    /\ c.embedding = d.embedding

\* C11: when a search call begins after another call on the same instance
\* has returned, with the same query, top_k, filters and query vector and the
\* store unchanged, both return the same chunks with the same similarities in
\* the same order, also when the first call loaded the title index and the
\* second found it cached.
C11_Deterministic ==
    \A p, q \in Callers :
        (/\ p # q
         /\ calls[q].after
         /\ Completed(p) /\ Completed(q)
         /\ SameArguments(calls[p], calls[q]))
        => calls[q].result = calls[p].result

\* the first call loaded the index and expanded references, the second call
\* began after it had returned and found the index cached
C11_Witness ==
    \E p, q \in Callers :
        /\ p # q
        /\ calls[q].after
        /\ Completed(p) /\ Completed(q)
        /\ SameArguments(calls[p], calls[q])
        /\ calls[p].loads = 1 /\ calls[q].loads = 0
        /\ calls[q].referenced # <<>>
        /\ \E i \in 1..Len(calls[q].result) :
              \A j \in 1..Len(calls[q].vector_rows) :
                  calls[q].vector_rows[j].chunk_id # calls[q].result[i].chunk_id

\* an index value that is a list holding every stored title of length 6 or
\* more exactly once, longest first
CompleteSortedIndex(index) ==
    /\ index.set
    /\ Len(index.val) = Cardinality(IndexedTitles)
    /\ {index.val[i][2] : i \in 1..Len(index.val)} = {x.title : x \in IndexedTitles}
    /\ \A i, j \in 1..Len(index.val) :
          i < j => Len(index.val[i][1]) >= Len(index.val[j][1])

\* the value one load assigns
SingleLoad == IndexOf(BuildTitleIndex(TitleRowsOfIndex))

\* C13: whichever way the callers interleave, the index a caller reads after
\* _get_title_index is a complete, length-sorted list, and once a load has
\* completed the cache holds the value a single load produces.
C13_LazyInitRace ==
    /\ \A p \in Callers :
          calls[p].index_read # NotRead => CompleteSortedIndex(calls[p].index_read)
    /\ title_index.set => title_index = SingleLoad

\* both callers found the index unset, both loaded it, both have returned
C13_Witness ==
    /\ \A p \in Callers : Completed(p) /\ calls[p].loads = 1
    /\ title_index = SingleLoad
    /\ Len(title_index.val) >= 2

\* the xref passes of a search that runs alone
RECURSIVE XrefAlone(_, _, _)
XrefAlone(seen, c, i) ==
    IF i > Len(c.referenced) THEN seen
    ELSE XrefAlone(MergeXrefRows(seen,
                       XrefQuery(c.embedding, c.referenced[i], c.page_type,
                                 c.game_mode, c.top_k, store_tie),
                       _extract_section_keywords(c.query)),
                   c, i + 1)

\* what search returns for the arguments and query vector of call c when no
\* other call runs on the instance and no awaited call raises
ResultAlone(c) ==
    LET vr == SearchWiki(c.embedding, c.top_k, c.page_type, c.game_mode, store_tie)
        tr == TitleQuery(c.embedding, c.query, c.page_type, c.game_mode,
                         c.top_k * TitleLimitFactor, store_tie)
        mt == MatchedTitles(tr)
        sh == Shadowed(mt)
        seen == MergeVectorRows(
                   MergeTitleRows(<<>>, tr, sh, _extract_section_keywords(c.query)), vr)
        top == TopContent(SortBySimilarity(seen))
        refs == IF top = "" THEN <<>>
                ELSE _find_references(SingleLoad, top, c.query, mt \cup sh)
    IN  FinalResults(XrefAlone(seen, [c EXCEPT !.referenced = refs], 1), c.top_k)

\* C15: no step of a search changes the store, and a search that returns a
\* ranked list returns the list it returns when it runs alone, whatever the
\* other caller does meanwhile.
C15_NoInterference ==
    /\ [](\A p \in Callers : Completed(p) => calls[p].result = ResultAlone(calls[p]))
    /\ [][wiki_pages' = wiki_pages]_vars

\* two overlapping calls for different queries, each of which read the index
\* and expanded references; one of them found the index loaded by the other
C15_Witness ==
    \E p, q \in Callers :
        /\ p # q
        /\ Completed(p) /\ Completed(q)
        /\ ~calls[p].after /\ ~calls[q].after
        /\ calls[p].query # calls[q].query
        /\ calls[p].loads = 1 /\ calls[q].loads = 0
        /\ calls[p].referenced # <<>> /\ calls[q].referenced # <<>>


-----------------------------------------------------------------------------
(* EmbeddingClient.embed_texts (scraper/processing/embedder.py) and the    *)
(* caller's upsert_embeddings: one action per awaited request to the       *)
(* embedding API.  Text i of the call is the content of chunk ChunkIdOf(i). *)

MaxTexts == 3
BATCH_SIZE == 2            \* 100 in embedder.py, scaled to the texts of the model
FirstCut == 30000          \* t[:30000]
SecondCut == 20000         \* t[:20000]
LastAttempt == 2           \* range(3): attempts 0, 1, 2

\* what the API answers to one request
Responses == {"ok", "rate_limited", "context_length", "status_error", "exception"}

\* the order of the items in data["data"]
DataOrders == {"by_index", "reversed"}

\* the embedding of a text cut to `cut` characters; the zero vector
EmbeddingOf(t, cut) == [of |-> t, cut |-> cut]
ZeroVector == [of |-> 0, cut |-> 0]

\* the caller's chunk_ids: chunk_ids[i] is the chunk whose content is texts[i]
ChunkIdOf(i) == 10 + i
CallerChunkIds(n) == [i \in 1..n |-> ChunkIdOf(i)]

\* batch = texts[i:i + BATCH_SIZE]
Batch == SubSeq(texts, batch_start + 1, Min2(batch_start + BATCH_SIZE, Len(texts)))

\* data["data"] of a 200 response: one item per input, tagged with its index
ResponseData(batch, cut, order) ==
    [k \in 1..Len(batch) |->
        LET j == IF order = "by_index" THEN k ELSE Len(batch) + 1 - k
        IN  [index |-> j - 1, embedding |-> EmbeddingOf(batch[j], cut)]]

\* sorted(data["data"], key=lambda x: x["index"]), then the embeddings
SortedEmbeddings(data) ==
    LET sorted_data == StableSortDesc(data, [k \in 1..Len(data) |-> 0 - data[k].index])
    IN  [k \in 1..Len(sorted_data) |-> sorted_data[k].embedding]

\* lines 95-96
EmbeddingsOfResponse(data) == SortedEmbeddings(data)

\* zip(chunk_ids, embeddings): pairs up to the shorter list
Zip(ids, embs) == {<<ids[i], embs[i]>> : i \in 1..Min2(Len(ids), Len(embs))}

InitEmbed ==
    /\ SearchIdle
    /\ ChunkIdle
    /\ ModesIdle
    /\ IngestIdle
    /\ ConcIdle
    /\ RateIdle
    /\ epc = "idle" /\ texts = <<>> /\ batch_start = 0 /\ attempt = 0
    /\ truncated_to = 0 /\ all_embeddings = <<>> /\ ind_results = <<>>
    /\ embed_outcome = "none" /\ embeddings = <<>> /\ stored = {}

\* lines 61-70 after _embed_batch returned embs: extend, then the next batch
\* or return all_embeddings
BatchDone(embs) ==
    /\ all_embeddings' = all_embeddings \o embs
    /\ ind_results' = <<>>
    /\ IF batch_start + BATCH_SIZE < Len(texts)
       THEN /\ batch_start' = batch_start + BATCH_SIZE
            /\ attempt' = 0
            /\ truncated_to' = FirstCut
            /\ epc' = "post"
            /\ UNCHANGED <<embed_outcome, embeddings>>
       ELSE /\ epc' = "returned"
            /\ embed_outcome' = "returned"
            /\ embeddings' = all_embeddings'
            /\ UNCHANGED <<batch_start, attempt, truncated_to>>

\* the exception leaves _embed_batch and embed_texts
EmbedRaises ==
    /\ epc' = "raised"
    /\ embed_outcome' = "raised"
    /\ UNCHANGED <<batch_start, attempt, truncated_to, all_embeddings, ind_results,
                   embeddings>>

\* the for loop goes to its next attempt; after the last one it is left and
\* line 122 returns []
NextAttempt ==
    IF attempt < LastAttempt
    THEN /\ attempt' = attempt + 1
         /\ UNCHANGED <<epc, batch_start, all_embeddings, ind_results,
                        embed_outcome, embeddings>>
    ELSE /\ BatchDone(<<>>)

\* run_scraper.py lines 115-117 and 366-369: embed_texts(texts); lines 57-61
EmbedTextsCall ==
    /\ epc = "idle"
    /\ \E n \in 0..MaxTexts : texts' = [i \in 1..n |-> i]
    /\ all_embeddings' = <<>> /\ ind_results' = <<>> /\ stored' = {}
    /\ batch_start' = 0 /\ attempt' = 0
    /\ IF texts' = <<>>
       THEN /\ epc' = "returned" /\ embed_outcome' = "returned"
            /\ embeddings' = <<>> /\ truncated_to' = 0
       ELSE /\ epc' = "post" /\ embed_outcome' = "none"
            /\ embeddings' = <<>> /\ truncated_to' = FirstCut
    /\ UNCHANGED not_embed

\* lines 88-120: one attempt of _embed_batch
PostBatch ==
    /\ epc = "post"
    /\ \E r \in Responses :
          \/ /\ r = "ok"
             /\ \E order \in DataOrders :
                   BatchDone(EmbeddingsOfResponse(ResponseData(Batch, truncated_to, order)))
          \/ /\ r = "rate_limited"
             /\ NextAttempt
             /\ IF attempt < LastAttempt THEN UNCHANGED truncated_to ELSE TRUE
          \/ /\ r = "context_length"
             /\ IF attempt = LastAttempt
                THEN /\ epc' = "individually"
                     /\ truncated_to' = SecondCut
                     /\ ind_results' = <<>>
                     /\ UNCHANGED <<batch_start, attempt, all_embeddings,
                                    embed_outcome, embeddings>>
                ELSE /\ attempt' = attempt + 1
                     /\ truncated_to' = SecondCut
                     /\ UNCHANGED <<epc, batch_start, all_embeddings, ind_results,
                                    embed_outcome, embeddings>>
          \/ /\ r = "status_error"
             /\ EmbedRaises
          \/ /\ r = "exception"
             /\ IF attempt < LastAttempt
                THEN /\ attempt' = attempt + 1
                     /\ UNCHANGED <<epc, batch_start, truncated_to, all_embeddings,
                                    ind_results, embed_outcome, embeddings>>
                ELSE EmbedRaises
    /\ UNCHANGED <<texts, stored, not_embed>>

\* lines 124-142: _embed_individually, one text per request; a failure gives
\* the zero vector
EmbedIndividually ==
    /\ epc = "individually"
    /\ LET text == Batch[Len(ind_results) + 1]
       IN  \E ok \in BOOLEAN :
             LET results == Append(ind_results,
                                   IF ok THEN EmbeddingOf(text, SecondCut) ELSE ZeroVector)
             IN  IF Len(results) = Len(Batch)
                 THEN BatchDone(results)
                 ELSE /\ ind_results' = results
                      /\ UNCHANGED <<epc, batch_start, attempt, truncated_to,
                                     all_embeddings, embed_outcome, embeddings>>
    /\ UNCHANGED <<texts, stored, not_embed>>

\* run_scraper.py line 118 / 370 and db.py lines 123-142:
\* upsert_embeddings(chunk_ids, embeddings, model)
StoreEmbeddings ==
    /\ epc = "returned"
    /\ stored' = Zip(CallerChunkIds(Len(texts)), embeddings)
    /\ epc' = "stored"
    /\ UNCHANGED <<texts, batch_start, attempt, truncated_to, all_embeddings,
                   ind_results, embed_outcome, embeddings, not_embed>>

\* the caller goes on; the client is ready for the next call
EmbedDone ==
    /\ epc \in {"stored", "raised"}
    /\ epc' = "idle"
    /\ UNCHANGED <<texts, batch_start, attempt, truncated_to, all_embeddings,
                   ind_results, embed_outcome, embeddings, stored, not_embed>>

NextEmbed ==
    \/ EmbedTextsCall
    \/ PostBatch
    \/ EmbedIndividually
    \/ StoreEmbeddings
    \/ EmbedDone

SpecEmbed == InitEmbed /\ [][NextEmbed]_vars

\* C27: when embed_texts returns, the list has one embedding per input text,
\* in input order, each the embedding of its text, whatever the API answered
\* to the attempts; and what upsert_embeddings then writes pairs every chunk
\* id with the embedding of its own text.
C27_OneEmbeddingPerText ==
    /\ (epc \in {"returned", "stored"}) =>
          /\ Len(embeddings) = Len(texts)
          /\ \A i \in 1..Len(embeddings) : embeddings[i].of = texts[i]
    /\ epc = "stored" =>
          \A i \in 1..Len(texts) :
              \E pair \in stored : pair[1] = ChunkIdOf(i) /\ pair[2].of = texts[i]


-----------------------------------------------------------------------------
(* RateLimitMiddleware.dispatch (backend/app/middleware/rate_limit.py).    *)
(* dispatch has no await before call_next, so one request is one action.   *)
(* Time is counted in ticks of 1/TicksPerSecond second; the clock never    *)
(* goes back, and it may advance between two reads of time.time().         *)

TicksPerSecond == 2                   \* int() rounds down to whole seconds
window == 4                           \* ticks; 60.0 seconds in rate_limit.py, scaled
rate_limit_per_minute == 2            \* settings.rate_limit_per_minute, 20 by default
CleanupPeriod == 3                    \* 100 in rate_limit.py, scaled
MaxTime == 5

_EXEMPT_PREFIXES == <<"/api/health", "/api/stats", "/static", "/test">>

ClientIps == {"10.0.0.1", "10.0.0.2"}
Paths == {"/api/chat", "/api/health/live", "/testing"}

\* path.startswith(prefix)
StartsWith(s, prefix) == Len(s) >= Len(prefix) /\ SubSeq(s, 1, Len(prefix)) = prefix

\* any(path.startswith(prefix) for prefix in _EXEMPT_PREFIXES)
IsExempt(path) ==
    \E i \in 1..Len(_EXEMPT_PREFIXES) : StartsWith(path, _EXEMPT_PREFIXES[i])

\* _request_log[ip] on the defaultdict(list)
LogOf(log, ip) == IF ip \in DOMAIN log THEN log[ip] ELSE <<>>

\* _request_log[ip] = ts
LogSet(log, ip, ts) ==
    [k \in DOMAIN log \cup {ip} |-> IF k = ip THEN ts ELSE log[k]]

\* [t for t in timestamps if t > cutoff]
After(ts, cutoff) == SelectSeq(ts, LAMBDA t : t > cutoff)

\* line 66
InWindow(ts, now) == After(ts, now - window)

\* _cleanup_expired(window), reading the clock as `time`
_cleanup_expired(log, time) ==
    LET cutoff == time - window
        kept == {ip \in DOMAIN log : After(log[ip], cutoff) # <<>>}
    IN  IF kept = {} THEN <<>> ELSE [ip \in kept |-> After(log[ip], cutoff)]

\* int(timestamps[0] + window - now) + 1, in seconds
RetryAfter(ts, now) == ((ts[1] + window - now) \div TicksPerSecond) + 1

\* the requests passed on that a window ending now still covers
StillInWindow(hs, now) == SelectSeq(hs, LAMBDA h : h.t > now - window)

InitRate ==
    /\ SearchIdle
    /\ ChunkIdle
    /\ ModesIdle
    /\ IngestIdle
    /\ ConcIdle
    /\ EmbedIdle
    /\ clock = 0 /\ _request_log = <<>> /\ _request_count = 0
    /\ response = <<>> /\ handled = <<>>

\* time passes between two requests
Tick ==
    /\ clock < MaxTime
    /\ clock' = clock + 1
    /\ UNCHANGED <<_request_log, _request_count, response, handled, not_rate>>

\* lines 51-52: a request to an exempt path goes straight to call_next
DispatchExempt ==
    /\ \E ip \in ClientIps, path \in Paths :
          /\ IsExempt(path)
          /\ response' = [ip |-> ip, exempt |-> TRUE, now |-> clock, status |-> 200,
                          retry_after |-> 0]
    /\ UNCHANGED <<clock, _request_log, _request_count, handled, not_rate>>

\* lines 54-84: a request to any other path.  The cleanup, when it runs,
\* reads the clock again, `late` ticks after now.
DispatchLimited ==
    \E ip \in ClientIps, path \in Paths, late \in {0, 1} :
       /\ ~IsExempt(path)
       /\ clock + late <= MaxTime
       /\ LET now == clock
              limit == rate_limit_per_minute
              count == (_request_count + 1) % CleanupPeriod
              cleaned == IF count = 0
                         THEN _cleanup_expired(_request_log, now + late)
                         ELSE _request_log
              timestamps == InWindow(LogOf(cleaned, ip), now)
          IN  /\ count # 0 => late = 0
              /\ _request_count' = count
              /\ clock' = now + late
              /\ IF Len(timestamps) >= limit
                 THEN /\ _request_log' = LogSet(cleaned, ip, timestamps)
                      /\ response' = [ip |-> ip, exempt |-> FALSE, now |-> now,
                                      status |-> 429,
                                      retry_after |-> RetryAfter(timestamps, now)]
                      /\ handled' = StillInWindow(handled, now)
                 ELSE /\ _request_log' = LogSet(cleaned, ip, Append(timestamps, now))
                      /\ response' = [ip |-> ip, exempt |-> FALSE, now |-> now,
                                      status |-> 200, retry_after |-> 0]
                      /\ handled' = Append(StillInWindow(handled, now),
                                           [ip |-> ip, t |-> now])
       /\ UNCHANGED not_rate

NextRate ==
    \/ Tick
    \/ DispatchExempt
    \/ DispatchLimited

SpecRate == InitRate /\ [][NextRate]_vars

\* the requests of ip passed on within the window that ends at time now
PassedInWindow(ip, now) ==
    Cardinality({j \in 1..Len(handled) :
                    handled[j].ip = ip /\ handled[j].t > now - window})

\* C30: at the arrival of every request, the requests of each client IP passed
\* on to the handler within the window ending at that arrival, the request
\* itself included, are at most rate_limit_per_minute; and a rejected request
\* carries a Retry-After of at least one second.
C30_SlidingWindow ==
    response # <<>> =>
       /\ \A ip \in ClientIps : PassedInWindow(ip, response.now) <= rate_limit_per_minute
       /\ response.status = 429 => response.retry_after >= 1

=============================================================================
